---- MODULE Spec2Model ----
(***************************************************************************)
(* Model of the diorb benchmark engine: the worker manager                 *)
(* (bench/worker.rs), the sequential executor (bench/sequential.rs), the   *)
(* scratch files of io/disk.rs and the buffer pool of io/buffer.rs.        *)
(*                                                                         *)
(* Worker tasks, the progress-aggregation task and the caller of the       *)
(* manager are interleaved processes.  One step of a task is one I/O call  *)
(* together with the straight-line code that follows it up to the next I/O *)
(* call or the next point where the task can be suspended (a send on a     *)
(* full channel).  The caller makes one wait_for_completion call per run.  *)
(***************************************************************************)
EXTENDS Integers, Sequences, FiniteSets, Bags, TLC

\* ------------------------------------------------------------------ bounds
\* largest thread_count tried
MaxWorkers == 2
\* capacity of the per-worker progress channels (mpsc::channel(100)), reduced
ChanCap == 1
\* capacity of the aggregated-progress channel (mpsc::channel(100)), reduced
AggCap == 1
\* number of storage calls that may fail in one run
MaxIoErrors == 1
\* number of writes that may return fewer bytes than requested in one run
MaxShortWrites == 1
\* tasks that share one BufferPool, and buffers one of them holds at a time
PoolClients == 2
MaxHeld == 2
\* releases counted since the pool was last empty
MaxReleased == 4
\* longest list given to combine_results
MaxResults == 2
\* longest list of latency samples
MaxSamples == 4
\* most operations of one run of the random executor
MaxOps == 2
\* most calls made on one handle of PlatformDiskIO
MaxDiskOps == 4
\* largest max_attempts given to retry_async
MaxAttempts == 3

\* most calls of append_result in a run
MaxAppends == 103
\* most results of a run that hold a NaN
MaxUnreadable == 1

\* ------------------------------------------------------- program constants
MIN_BLOCK_SIZE == 512
MAX_BLOCK_SIZE == 1024 * 1024
\* MAX_FILE_SIZE is 100 GiB, kept in KiB to stay inside the checker's integers
MAX_FILE_SIZE_KIB == 100 * 1024 * 1024
MAX_THREADS == 64
\* MAX_DURATION, in seconds
MAX_DURATION == 3600
MAX_RESULTS_HISTORY == 100
PatternPeriod == 256

\* ------------------------------------------------------------ input sets
Modes == {"SequentialWrite", "SequentialRead", "RandomReadWrite", "Mixed"}
FileSizes == {512, 1025}
BlockSizes == {512}
\* byte counts a short write may return (0 is the "Write returned 0 bytes" case)
ShortCounts == {0, 1}

Min(a, b) == IF a < b THEN a ELSE b
Max(a, b) == IF a > b THEN a ELSE b

IsSequential(mode) == mode \in {"SequentialWrite", "SequentialRead"}

is_power_of_two(n) == \E k \in 0..30 : n = 2^k

\* file_size > MAX_FILE_SIZE
TooLarge(n) ==
    \/ n \div 1024 > MAX_FILE_SIZE_KIB
    \/ n \div 1024 = MAX_FILE_SIZE_KIB /\ n % 1024 # 0

\* what the file system holds at a path: disk_path.exists(), is_dir()
PathKind(p) ==
    IF p = "target_dir" THEN "dir" ELSE IF p = "a_file" THEN "file" ELSE "none"

\* f32 values: tenths, or NaN, which compares false with everything
Ratio(t) == [nan |-> FALSE, tenths |-> t]
NaN == [nan |-> TRUE, tenths |-> 0]
FLess(a, b) == ~a.nan /\ ~b.nan /\ a.tenths < b.tenths

\* BenchmarkConfig::validate; duration is in seconds
validate(c) ==
    /\ PathKind(c.disk_path) # "none"
    /\ PathKind(c.disk_path) = "dir"
    /\ c.file_size # 0
    /\ ~TooLarge(c.file_size)
    /\ c.block_size # 0
    /\ is_power_of_two(c.block_size)
    /\ ~(c.block_size < MIN_BLOCK_SIZE \/ c.block_size > MAX_BLOCK_SIZE)
    /\ (IsSequential(c.mode) => ~(c.file_size < c.block_size))
    /\ c.duration # 0
    /\ ~(c.duration > MAX_DURATION)
    /\ c.thread_count # 0
    /\ ~(c.thread_count > MAX_THREADS)
    /\ (c.mode = "Mixed" =>
          ~(FLess(c.read_ratio, Ratio(0)) \/ FLess(Ratio(10), c.read_ratio)))

\* the configs of the manager's runs; read_ratio is the field of the Mixed
\* mode and is carried by every record
Configs ==
    { c \in [mode : Modes, disk_path : {"target_dir"}, file_size : FileSizes,
             block_size : BlockSizes, duration : {30},
             thread_count : 1..MaxWorkers, keep_temp_files : BOOLEAN,
             read_ratio : {Ratio(5)}] :
        validate(c) }

\* create_test_pattern: byte i of the pattern is i mod 256 (sequences are
\* 1-based, so element i holds the byte of offset i-1)
create_test_pattern(size) == [i \in 1..size |-> (i - 1) % PatternPeriod]

Zeros(n) == [i \in 1..n |-> 0]

\* ------------------------------------------------------------ file system
\* write(2) on a handle without O_APPEND: data lands at the handle's offset,
\* a gap between the end of the file and the offset reads as zeros
FsWrite(content, off, data) ==
    LET newLen == Max(Len(content), off + Len(data)) IN
    IF data = << >> THEN content
    ELSE [i \in 1..newLen |->
            IF i > off /\ i <= off + Len(data) THEN data[i - off]
            ELSE IF i <= Len(content) THEN content[i] ELSE 0]

\* read(2): the bytes from the offset up to the end of the file, at most n
FsRead(content, off, n) ==
    IF off >= Len(content) THEN << >>
    ELSE SubSeq(content, off + 1, Min(off + n, Len(content)))

Prefix(s, n) == SubSeq(s, 1, n)

\* the read overwrites the first Len(data) bytes of the buffer slice
BufOverwrite(buf, data) ==
    [i \in 1..Len(buf) |-> IF i <= Len(data) THEN data[i] ELSE buf[i]]

VARIABLES
    config,        \* WorkerManager.config
    started,       \* return value of start_benchmark: "none", "Ok", "ConfigError"
    workers,       \* WorkerManager.workers: sequence of WorkerInfo
    lock,          \* holder of the workers mutex: "free" or "wait"
    waitPc,        \* wait_for_completion: "idle", "joining", "returned"
    waitIdx,       \* index of the worker wait_for_completion is at
    results,       \* results collected by wait_for_completion
    waitRet,       \* what wait_for_completion returned
    cancelledAfterStart, \* cancel_all was called after start_benchmark and
                   \* before any other call on the manager
    cancelCh,      \* per worker: the oneshot cancellation channel
    pc,            \* per worker: position of the task
    worker_config, \* per worker: the executor's config
    bytes_written, \* per worker: bytes_written of the write loop
    bytes_read,    \* per worker: bytes_read of the read loop
    temp_file,     \* per worker: the TempFile it owns
    read_file,     \* per worker: the handle opened by open_direct_read
    buffer,        \* per worker: the buffer taken from the pool
    pending,       \* per worker: the update of a send that is suspended
    outcome,       \* per worker: what the task returned
    chan,          \* per worker: progress channel contents
    chanRx,        \* per worker: the receiver of the progress channel is alive
    sent,          \* per worker: every update the executor passed to send
    finished,      \* worker ids in the order the tasks ended
    pathIno,       \* inode the scratch path links to (0: no such file)
    ino,           \* contents of every inode
    ioErrors,      \* storage failures injected so far
    shortWrites,   \* short writes injected so far
    aggPc,         \* aggregation task: "off", "poll", "sending" (suspended
                   \* in the send of a snapshot), "stopped"
    worker_progress, \* aggregation task: latest update per worker
    aggChan,       \* aggregated-progress channel contents
    aggRx,         \* the caller still holds the aggregated receiver
    pool,          \* BufferPool.buffers
    poolCfg,       \* BufferPool.buffer_size and max_buffers
    held,          \* per client of the pool: the buffers it holds
    released,      \* matching buffers released since the pool was last empty
                   \* (-1: the pool has not been empty since an acquire)
    cIn,           \* combine_results: the argument
    cOut,          \* combine_results: the return value
    arg,           \* argument of the function a specification applies
    ret,           \* its return value
    rnd,           \* the RandomBenchmark executor and the locals of its run
    dio,           \* a handle of PlatformDiskIO and the calls made on it
    retry          \* one call of retry_async: its locals and the calls made

vars == << config, started, workers, lock, waitPc, waitIdx, results, waitRet,
           cancelCh, pc, worker_config, bytes_written, bytes_read, temp_file,
           read_file, buffer, pending, outcome, chan, chanRx, sent, finished,
           pathIno, ino, ioErrors, shortWrites, aggPc, worker_progress,
           aggChan, aggRx, cancelledAfterStart, pool, poolCfg, held, released,
           cIn, cOut, arg, ret, rnd, dio, retry >>

poolVars == << pool, poolCfg, held, released >>
combVars == << cIn, cOut >>
auxVars == << dio, retry >>
fnVars == << arg, ret, rnd, auxVars >>
otherSpecs == << poolVars, combVars, fnVars >>

mgrVars ==
    << started, workers, lock, waitPc, waitIdx, results, waitRet,
       cancelledAfterStart >>
fsVars == << pathIno, ino >>
aggVars == << aggPc, worker_progress, aggChan, aggRx >>

Ids == 0..(MaxWorkers - 1)
WorkerIds == 0..(config.thread_count - 1)

NoFile ==
    [open |-> FALSE, path |-> << >>, ino |-> 0, off |-> 0,
     cleanup_on_drop |-> FALSE]
None == [some |-> FALSE]
Some(v) == [some |-> TRUE, v |-> v]

\* WorkerInfo::new
WorkerInfo(id) ==
    [id |-> id, status |-> "Idle", reason |-> None, handle |-> FALSE,
     cancel_tx |-> FALSE, progress_tx |-> FALSE]

is_active(w) == w.status = "Running"
is_completed(w) == w.status \in {"Completed", "Failed", "Cancelled"}

\* the buffer pool and combine_results have specifications of their own
PoolIdle ==
    /\ pool = << >>
    /\ poolCfg = [buffer_size |-> 1, max_buffers |-> 1]
    /\ held = EmptyBag
    /\ released = 0

CombineIdle ==
    /\ cIn = << >>
    /\ cOut = None

\* no RandomBenchmark has been constructed
RndNone ==
    [pc |-> "none", read_ratio |-> Ratio(0), temp_file |-> NoFile,
     read_file |-> NoFile, write_file |-> NoFile, buffer |-> << >>,
     bytes_written |-> 0, bytes_processed |-> 0, operations |-> 0,
     read_lens |-> << >>, chan |-> << >>, rx |-> TRUE, pending |-> None,
     outcome |-> None]

\* no file has been opened through PlatformDiskIO
DioClosed ==
    [pc |-> "closed", mode |-> "none", direct_ok |-> FALSE,
     buffered_ok |-> FALSE, use_fsync |-> FALSE, calls |-> << >>, notices |-> 0]

\* retry_async has not been called
RetryIdle ==
    [pc |-> "idle", config |-> << >>, attempt |-> 0, delay |-> 0,
     calls |-> << >>, last_error |-> None, result |-> None]

AuxIdle == dio = DioClosed /\ retry = RetryIdle

FnIdle ==
    /\ arg = << >>
    /\ ret = None
    /\ rnd = RndNone
    /\ AuxIdle

\* state after WorkerManager::new(config) returned Ok
ManagerInit(c) ==
    /\ config = c
    /\ cancelledAfterStart = FALSE
    /\ started = "none"
    /\ workers = << >>
    /\ lock = "free"
    /\ waitPc = "idle"
    /\ waitIdx = 0
    /\ results = << >>
    /\ waitRet = None
    /\ cancelCh = [w \in Ids |-> "open"]
    /\ pc = [w \in Ids |-> "unspawned"]
    /\ worker_config = [w \in Ids |-> config]
    /\ bytes_written = [w \in Ids |-> 0]
    /\ bytes_read = [w \in Ids |-> 0]
    /\ temp_file = [w \in Ids |-> NoFile]
    /\ read_file = [w \in Ids |-> NoFile]
    /\ buffer = [w \in Ids |-> << >>]
    /\ pending = [w \in Ids |-> None]
    /\ outcome = [w \in Ids |-> None]
    /\ chan = [w \in Ids |-> << >>]
    /\ chanRx = [w \in Ids |-> FALSE]
    /\ sent = [w \in Ids |-> << >>]
    /\ finished = << >>
    /\ pathIno = 0
    /\ ino = [i \in 1..MaxWorkers |-> << >>]
    /\ ioErrors = 0
    /\ shortWrites = 0
    /\ aggPc = "off"
    /\ worker_progress = [w \in Ids |-> None]
    /\ aggChan = << >>
    /\ aggRx = TRUE

Init ==
    /\ \E c \in Configs : ManagerInit(c)
    /\ PoolIdle
    /\ CombineIdle
    /\ FnIdle


\* ---------------------------------------------------------------- manager
\* spawn_sequential_worker: the file_size of one worker's config
WorkerFileSize(c) ==
    IF c.thread_count > 1 THEN c.file_size \div c.thread_count
    ELSE c.file_size

WorkerConfig(c) ==
    IF IsSequential(c.mode) THEN [c EXCEPT !.file_size = WorkerFileSize(c)]
    ELSE c

\* start_benchmark with spawn_workers.  SequentialBenchmark::new validates
\* the worker's config; the first failure leaves spawn_workers through `?`
\* with worker 0 holding its channel ends and every worker still Idle.
start_benchmark ==
    /\ started = "none"
    /\ lock = "free"
    /\ LET n == config.thread_count
           wc == WorkerConfig(config)
           ok == IsSequential(config.mode) => validate(wc)
       IN
       /\ started' = IF ok THEN "Ok" ELSE "ConfigError"
       /\ workers' =
            [i \in 1..n |->
                IF ok
                THEN [WorkerInfo(i - 1) EXCEPT !.status = "Running",
                         !.handle = TRUE, !.cancel_tx = TRUE,
                         !.progress_tx = TRUE]
                ELSE IF i = 1
                THEN [WorkerInfo(0) EXCEPT !.cancel_tx = TRUE,
                         !.progress_tx = TRUE]
                ELSE WorkerInfo(i - 1)]
       /\ pc' = [w \in Ids |-> IF ok /\ w < n THEN "spawned" ELSE pc[w]]
       /\ worker_config' = [w \in Ids |-> wc]
       /\ chanRx' = [w \in Ids |-> ok /\ w < n]
       /\ aggPc' = IF ok THEN "poll" ELSE "off"
    /\ UNCHANGED << otherSpecs, cancelledAfterStart, config,
                    lock, waitPc, waitIdx, results, waitRet, cancelCh,
                    bytes_written, bytes_read, temp_file, read_file, buffer,
                    pending, outcome, chan, sent, finished, fsVars, ioErrors,
                    shortWrites, worker_progress, aggChan, aggRx >>

\* a loop body without the is_active test
CancelStatusAny(w) == [w EXCEPT !.cancel_tx = FALSE, !.status = "Cancelled"]

\* cancel_all: under the workers mutex, every Running worker is signalled
\* (the send is lost when the task has already ended) and marked Cancelled
CancelStatus(w) ==
    IF is_active(w) THEN [w EXCEPT !.cancel_tx = FALSE, !.status = "Cancelled"]
    ELSE w

cancel_all ==
    /\ lock = "free"
    /\ cancelledAfterStart' =
         (cancelledAfterStart \/ (started = "Ok" /\ waitPc = "idle"))
    /\ workers' = [i \in 1..Len(workers) |-> CancelStatus(workers[i])]
    /\ cancelCh' =
         [w \in Ids |->
            IF /\ w < Len(workers)
               /\ is_active(workers[w + 1])
               /\ workers[w + 1].cancel_tx
               /\ ~outcome[w].some
            THEN "sent" ELSE cancelCh[w]]
    /\ UNCHANGED << otherSpecs, config, started, lock, waitPc, waitIdx, results, waitRet,
                    pc, worker_config, bytes_written, bytes_read, temp_file,
                    read_file, buffer, pending, outcome, chan, chanRx, sent,
                    finished, fsVars, ioErrors, shortWrites, aggVars >>

\* wait_for_completion takes the workers mutex and keeps it until it returns
WaitBegin ==
    /\ started # "none"
    /\ waitPc = "idle"
    /\ lock = "free"
    /\ lock' = "wait"
    /\ waitPc' = "joining"
    /\ waitIdx' = 0
    /\ results' = << >>
    /\ UNCHANGED << otherSpecs, cancelledAfterStart, config,
                    started, workers, waitRet, cancelCh, pc,
                    worker_config, bytes_written, bytes_read, temp_file,
                    read_file, buffer, pending, outcome, chan, chanRx, sent,
                    finished, fsVars, ioErrors, shortWrites, aggVars >>

\* a loop that walks the workers from the last one registered
JoinOrderReversed(k) == Len(workers) - 1 - k

\* the worker the loop of wait_for_completion visits in its k-th iteration
JoinOrder(k) == k

\* a collection that puts the newest result first
push_front(rs, r) == << r >> \o rs

\* results.push(result)
push(rs, r) == Append(rs, r)

\* one iteration of `for worker in workers.iter_mut()`: a worker without a
\* handle is skipped, otherwise the handle is awaited until the task ended
WaitJoin ==
    /\ waitPc = "joining"
    /\ waitIdx < Len(workers)
    /\ LET id == JoinOrder(waitIdx)
           worker == workers[id + 1]
       IN
       IF ~worker.handle
       THEN /\ waitIdx' = waitIdx + 1
            /\ UNCHANGED << workers, results, waitPc, waitRet, lock >>
       ELSE /\ outcome[id].some
            /\ IF outcome[id].v.ok
               THEN /\ workers' = [workers EXCEPT ![id + 1].handle = FALSE,
                                      ![id + 1].status = "Completed"]
                    /\ results' = push(results, outcome[id].v)
                    /\ waitIdx' = waitIdx + 1
                    /\ UNCHANGED << waitPc, waitRet, lock >>
               ELSE /\ workers' = [workers EXCEPT ![id + 1].handle = FALSE,
                                      ![id + 1].status = "Failed",
                                      ![id + 1].reason = Some(outcome[id].v)]
                    /\ waitRet' = Some([ok |-> FALSE, err |-> outcome[id].v])
                    /\ waitPc' = "returned"
                    /\ lock' = "free"
                    /\ UNCHANGED << results, waitIdx >>
    /\ UNCHANGED << otherSpecs, cancelledAfterStart, config,
                    started, cancelCh, pc, worker_config,
                    bytes_written, bytes_read, temp_file, read_file, buffer,
                    pending, outcome, chan, chanRx, sent, finished, fsVars,
                    ioErrors, shortWrites, aggVars >>

\* the loop is over: Ok(results)
WaitReturn ==
    /\ waitPc = "joining"
    /\ waitIdx >= Len(workers)
    /\ waitRet' = Some([ok |-> TRUE, results |-> results])
    /\ waitPc' = "returned"
    /\ lock' = "free"
    /\ UNCHANGED << otherSpecs, cancelledAfterStart, config,
                    started, workers, waitIdx, results, cancelCh, pc,
                    worker_config, bytes_written, bytes_read, temp_file,
                    read_file, buffer, pending, outcome, chan, chanRx, sent,
                    finished, fsVars, ioErrors, shortWrites, aggVars >>


\* ----------------------------------------------------------- worker tasks
Ok(w, n) == [ok |-> TRUE, bytes_processed |-> n, src |-> w]
Err(w, kind) == [ok |-> FALSE, kind |-> kind, src |-> w]

\* ProgressUpdate (the times are not modelled; the rates, which depend on the
\* clock, are carried as 0 in the runs of the manager and take other values
\* in the specification of aggregate_progress)
\* an update that reports the bytes still to do
RemainingUpdate(n, total) ==
    [bytes_processed |-> total - n, total_bytes |-> total,
     throughput_mbps |-> 0, iops |-> 0]

ProgressUpdate(n, total) ==
    [bytes_processed |-> n, total_bytes |-> total, throughput_mbps |-> 0,
     iops |-> 0]

\* the per-task variables in one step
Local(w, p, bw, br, tf, rf, buf, pend) ==
    /\ pc' = [pc EXCEPT ![w] = p]
    /\ bytes_written' = [bytes_written EXCEPT ![w] = bw]
    /\ bytes_read' = [bytes_read EXCEPT ![w] = br]
    /\ temp_file' = [temp_file EXCEPT ![w] = tf]
    /\ read_file' = [read_file EXCEPT ![w] = rf]
    /\ buffer' = [buffer EXCEPT ![w] = buf]
    /\ pending' = [pending EXCEPT ![w] = pend]

Goto(w, p) ==
    Local(w, p, bytes_written[w], bytes_read[w], temp_file[w], read_file[w],
          buffer[w], None)

\* impl Drop for TempFile: remove_file(path) when cleanup_on_drop is set
DropTempFile(tf) ==
    IF tf.open /\ tf.cleanup_on_drop THEN 0 ELSE pathIno

\* the task returns res: everything the future owns is dropped
Finish(w, res) ==
    /\ Local(w, "done", bytes_written[w], bytes_read[w], NoFile, NoFile,
             << >>, None)
    /\ outcome' = [outcome EXCEPT ![w] = Some(res)]
    /\ finished' = Append(finished, w)
    /\ pathIno' = DropTempFile(temp_file[w])

Keep ==
    UNCHANGED << otherSpecs, config, mgrVars, cancelCh, worker_config, chanRx, aggVars >>

\* first poll of the spawned task: cancel_rx.try_recv()
TaskStart(w) ==
    /\ pc[w] = "spawned"
    /\ IF cancelCh[w] = "sent"
       THEN /\ Finish(w, Err(w, "cancelled_before_start"))
            /\ UNCHANGED << chan, sent, ino, ioErrors, shortWrites >>
       ELSE /\ Goto(w, "select")
            /\ UNCHANGED << outcome, finished, chan, sent, fsVars, ioErrors,
                            shortWrites >>
    /\ Keep

\* select! polls its branches in an order it picks: a signal that is already
\* there can win before the executor has done anything
SelectCancel(w) ==
    /\ pc[w] = "select"
    /\ cancelCh[w] = "sent"
    /\ Finish(w, Err(w, "cancelled"))
    /\ UNCHANGED << chan, sent, ino, ioErrors, shortWrites >>
    /\ Keep

\* the placeholder of spawn_random_worker / spawn_mixed_worker: the sleep
\* ends with "not implemented" unless the signal comes first
Placeholder(w) ==
    /\ pc[w] = "select"
    /\ ~IsSequential(config.mode)
    /\ Goto(w, "sleep")
    /\ UNCHANGED << outcome, finished, chan, sent, fsVars, ioErrors,
                    shortWrites >>
    /\ Keep

PlaceholderEnd(w) ==
    /\ pc[w] = "sleep"
    /\ \/ Finish(w, Err(w, "not_implemented"))
       \/ cancelCh[w] = "sent" /\ Finish(w, Err(w, "cancelled"))
    /\ UNCHANGED << chan, sent, ino, ioErrors, shortWrites >>
    /\ Keep

\* PlatformDiskIO::create_temp_file: every worker of the process computes the
\* same name in the same directory
\* (w is the worker that makes the call; the code does not use it)
process_id == "pid"
temp_path(w, dir) == << dir, "DIORB_TMP_", process_id, ".dat" >>

\* open_direct_write(create, truncate) on that path, whose inode is pathIno:
\* an existing file is emptied in place, otherwise a new inode is linked; the
\* inode a worker creates has number w + 1
create_temp_file(w) ==
    IF pathIno = 0
    THEN /\ pathIno' = w + 1
         /\ ino' = [ino EXCEPT ![w + 1] = << >>]
    ELSE /\ pathIno' = pathIno
         /\ ino' = [ino EXCEPT ![pathIno] = << >>]

\* run_sequential_write up to its loop, create_test_file up to its loop
RunCreate(w) ==
    /\ pc[w] = "select"
    /\ IsSequential(config.mode)
    /\ \/ /\ ioErrors < MaxIoErrors
          /\ ioErrors' = ioErrors + 1
          /\ Finish(w, Err(w, "io"))
          /\ UNCHANGED << chan, sent, ino, shortWrites >>
       \/ /\ create_temp_file(w)
          /\ LET write == worker_config[w].mode = "SequentialWrite"
                 tf == [open |-> TRUE,
                        path |-> temp_path(w, worker_config[w].disk_path),
                        ino |-> pathIno', off |-> 0,
                        cleanup_on_drop |->
                            IF write THEN ~worker_config[w].keep_temp_files
                            ELSE TRUE]
             IN Local(w, IF write THEN "write" ELSE "fill", 0, 0, tf, NoFile,
                      create_test_pattern(worker_config[w].block_size), None)
          /\ UNCHANGED << outcome, finished, chan, sent, ioErrors,
                          shortWrites >>
    /\ Keep

\* short writes are tried in the runs of a single worker
ShortBudget == IF config.thread_count = 1 THEN MaxShortWrites ELSE 0

\* the byte counts one write_direct(chunk) can return
WriteCounts(write_size) ==
    {write_size} \cup
    (IF shortWrites < ShortBudget
     THEN {n \in ShortCounts : n < write_size} ELSE {})

\* a loop that is content with one write
AfterFirstWrite(w, bw) == "sync"

\* where the write loop goes after an iteration
AfterWrite(w, bw) ==
    IF bw < worker_config[w].file_size THEN "write" ELSE "sync"

\* where the read loop goes after an iteration
AfterRead(w, br) ==
    IF br < worker_config[w].file_size THEN "read" ELSE "final"

\* a send that gives up when the channel is full (try_send)
TimedSendTry(w, update, next, bw, br, tf, rf, buf) ==
    /\ sent' = [sent EXCEPT ![w] = Append(@, update)]
    /\ IF ~chanRx[w] \/ Len(chan[w]) >= ChanCap
       THEN /\ Finish(w, Err(w, "receiver_dropped"))
            /\ UNCHANGED chan
       ELSE /\ Local(w, next, bw, br, tf, rf, buf, None)
            /\ chan' = [chan EXCEPT ![w] = Append(@, update)]
            /\ UNCHANGED << outcome, finished, pathIno >>

\* progress_tx.send(update).await of the loops, the update being one more
\* element of the stream: an error when the receiver is gone, done at once
\* when there is room, suspended when the channel is full
TimedSend(w, update, next, bw, br, tf, rf, buf) ==
    /\ sent' = [sent EXCEPT ![w] = Append(@, update)]
    /\ IF ~chanRx[w]
       THEN /\ Finish(w, Err(w, "receiver_dropped"))
            /\ UNCHANGED chan
       ELSE IF Len(chan[w]) < ChanCap
       THEN /\ Local(w, next, bw, br, tf, rf, buf, None)
            /\ chan' = [chan EXCEPT ![w] = Append(@, update)]
            /\ UNCHANGED << outcome, finished, pathIno >>
       ELSE /\ Local(w, "sendBlocked", bw, br, tf, rf, buf, Some(update))
            /\ UNCHANGED << chan, outcome, finished, pathIno >>

\* one iteration of the loop of run_sequential_write
RunWrite(w) ==
    /\ pc[w] = "write"
    /\ LET c == worker_config[w]
           remaining == c.file_size - bytes_written[w]
           write_size == Min(remaining, c.block_size)
           chunk == Prefix(buffer[w], write_size)
       IN
       \/ /\ ioErrors < MaxIoErrors
          /\ ioErrors' = ioErrors + 1
          /\ Finish(w, Err(w, "io"))
          /\ UNCHANGED << chan, sent, ino, shortWrites >>
       \/ \E written \in WriteCounts(write_size) :
            LET tf == [temp_file[w] EXCEPT !.off = @ + written]
                bw == bytes_written[w] + written
            IN
            /\ shortWrites' =
                 IF written < write_size THEN shortWrites + 1 ELSE shortWrites
            /\ ino' = [ino EXCEPT ![tf.ino] =
                         FsWrite(@, temp_file[w].off, Prefix(chunk, written))]
            /\ UNCHANGED ioErrors
            /\ IF written = 0
               THEN /\ Finish(w, Err(w, "write_zero"))
                    /\ UNCHANGED << chan, sent >>
               ELSE \/ /\ Local(w, AfterWrite(w, bw), bw, 0, tf, NoFile,
                                buffer[w], None)
                       /\ UNCHANGED << outcome, finished, chan, sent,
                                       pathIno >>
                    \/ TimedSend(w, ProgressUpdate(bw, c.file_size),
                                 AfterWrite(w, bw), bw, 0, tf, NoFile,
                                 buffer[w])
    /\ Keep

\* temp_file.file.sync_all() after the write loop
RunSync(w) ==
    /\ pc[w] = "sync"
    /\ \/ /\ ioErrors < MaxIoErrors
          /\ ioErrors' = ioErrors + 1
          /\ Finish(w, Err(w, "io"))
          /\ UNCHANGED << chan, sent, ino, shortWrites >>
       \/ /\ Goto(w, "final")
          /\ UNCHANGED << outcome, finished, chan, sent, fsVars, ioErrors,
                          shortWrites >>
    /\ Keep

\* the bytes the run was asked to process
Requested(w) == worker_config[w].file_size

\* bytes_processed of the metrics and of the final update
Processed(w) ==
    IF worker_config[w].mode = "SequentialWrite" THEN bytes_written[w]
    ELSE bytes_read[w]

\* calculate_metrics, the final update and its send, whose failure is ignored
RunFinal(w) ==
    /\ pc[w] = "final"
    /\ LET update == ProgressUpdate(Processed(w), worker_config[w].file_size)
       IN
       /\ sent' = [sent EXCEPT ![w] = Append(@, update)]
       /\ IF ~chanRx[w]
          THEN /\ Finish(w, Ok(w, Processed(w)))
               /\ UNCHANGED chan
          ELSE IF Len(chan[w]) < ChanCap
          THEN /\ Finish(w, Ok(w, Processed(w)))
               /\ chan' = [chan EXCEPT ![w] = Append(@, update)]
          ELSE /\ Local(w, "finalBlocked", bytes_written[w], bytes_read[w],
                        temp_file[w], read_file[w], buffer[w], Some(update))
               /\ UNCHANGED << chan, outcome, finished, pathIno >>
    /\ UNCHANGED << ino, ioErrors, shortWrites >>
    /\ Keep

\* a suspended send of the loop is resumed: a slot got free, or the receiver
\* was dropped
ResumeSend(w) ==
    /\ pc[w] = "sendBlocked"
    /\ IF ~chanRx[w]
       THEN /\ Finish(w, Err(w, "receiver_dropped"))
            /\ UNCHANGED chan
       ELSE /\ Len(chan[w]) < ChanCap
            /\ chan' = [chan EXCEPT ![w] = Append(@, pending[w].v)]
            /\ Goto(w, IF worker_config[w].mode = "SequentialWrite"
                       THEN AfterWrite(w, bytes_written[w])
                       ELSE AfterRead(w, bytes_read[w]))
            /\ UNCHANGED << outcome, finished, pathIno >>
    /\ UNCHANGED << sent, ino, ioErrors, shortWrites >>
    /\ Keep

\* the suspended send of the final update is resumed
ResumeFinal(w) ==
    /\ pc[w] = "finalBlocked"
    /\ IF ~chanRx[w]
       THEN UNCHANGED chan
       ELSE /\ Len(chan[w]) < ChanCap
            /\ chan' = [chan EXCEPT ![w] = Append(@, pending[w].v)]
    /\ Finish(w, Ok(w, Processed(w)))
    /\ UNCHANGED << sent, ino, ioErrors, shortWrites >>
    /\ Keep

\* a cancellation that could stop the run future anywhere
AnyPoint ==
    {"write", "sync", "final", "fill", "fillsync", "open", "read",
     "sendBlocked", "finalBlocked"}

\* a select! that never looks at the cancel branch again
NoSuspensionPoint == {}

\* where the run future returns Pending: the sends on the progress channel
SuspensionPoints == {"sendBlocked", "finalBlocked"}

\* the cancel branch of select! wins while the executor is suspended
CancelSuspended(w) ==
    /\ pc[w] \in SuspensionPoints
    /\ cancelCh[w] = "sent"
    /\ Finish(w, Err(w, "cancelled"))
    /\ UNCHANGED << chan, sent, ino, ioErrors, shortWrites >>
    /\ Keep


\* one iteration of the loop of create_test_file (no progress is sent)
RunFill(w) ==
    /\ pc[w] = "fill"
    /\ LET c == worker_config[w]
           remaining == c.file_size - bytes_written[w]
           write_size == Min(remaining, c.block_size)
           write_buffer == Prefix(buffer[w], write_size)
       IN
       \/ /\ ioErrors < MaxIoErrors
          /\ ioErrors' = ioErrors + 1
          /\ Finish(w, Err(w, "io"))
          /\ UNCHANGED << ino, shortWrites >>
       \/ \E written \in WriteCounts(write_size) :
            LET tf == [temp_file[w] EXCEPT !.off = @ + written]
                bw == bytes_written[w] + written
            IN
            /\ shortWrites' =
                 IF written < write_size THEN shortWrites + 1 ELSE shortWrites
            /\ ino' = [ino EXCEPT ![tf.ino] =
                         FsWrite(@, temp_file[w].off,
                                 Prefix(write_buffer, written))]
            /\ UNCHANGED ioErrors
            /\ IF written = 0
               THEN Finish(w, Err(w, "write_zero"))
               ELSE /\ Local(w, IF bw < c.file_size THEN "fill"
                                ELSE "fillsync",
                             bw, 0, tf, NoFile, buffer[w], None)
                    /\ UNCHANGED << outcome, finished, pathIno >>
    /\ UNCHANGED << chan, sent >>
    /\ Keep

\* the sync that ends create_test_file; back in run_sequential_read the
\* file is kept on drop when the config asks for it
RunFillSync(w) ==
    /\ pc[w] = "fillsync"
    /\ \/ /\ ioErrors < MaxIoErrors
          /\ ioErrors' = ioErrors + 1
          /\ Finish(w, Err(w, "io"))
       \/ /\ Local(w, "open", bytes_written[w], 0,
                   [temp_file[w] EXCEPT !.cleanup_on_drop =
                        IF worker_config[w].keep_temp_files THEN FALSE ELSE @],
                   NoFile, << >>, None)
          /\ UNCHANGED << outcome, finished, pathIno, ioErrors >>
    /\ UNCHANGED << chan, sent, ino, shortWrites >>
    /\ Keep

\* open_direct_read(temp_file.path()) and a fresh buffer from the pool
RunOpenRead(w) ==
    /\ pc[w] = "open"
    /\ \/ /\ pathIno = 0
          /\ Finish(w, Err(w, "io"))
          /\ UNCHANGED ioErrors
       \/ /\ ioErrors < MaxIoErrors
          /\ ioErrors' = ioErrors + 1
          /\ Finish(w, Err(w, "io"))
       \/ /\ pathIno # 0
          /\ Local(w, "read", bytes_written[w], 0, temp_file[w],
                   [open |-> TRUE, path |-> temp_file[w].path,
                    ino |-> pathIno, off |-> 0, cleanup_on_drop |-> FALSE],
                   Zeros(worker_config[w].block_size), None)
          /\ UNCHANGED << outcome, finished, pathIno, ioErrors >>
    /\ UNCHANGED << chan, sent, ino, shortWrites >>
    /\ Keep

\* one iteration of the loop of run_sequential_read; a read of 0 bytes is
\* the end of the file and leaves the loop
RunRead(w) ==
    /\ pc[w] = "read"
    /\ LET c == worker_config[w]
           remaining == c.file_size - bytes_read[w]
           read_size == Min(remaining, c.block_size)
           data == FsRead(ino[read_file[w].ino], read_file[w].off, read_size)
           read_bytes == Len(data)
           rf == [read_file[w] EXCEPT !.off = @ + read_bytes]
           br == bytes_read[w] + read_bytes
           buf == BufOverwrite(buffer[w], data)
       IN
       \/ /\ ioErrors < MaxIoErrors
          /\ ioErrors' = ioErrors + 1
          /\ Finish(w, Err(w, "io"))
          /\ UNCHANGED << chan, sent >>
       \/ /\ read_bytes = 0
          /\ Goto(w, "final")
          /\ UNCHANGED << outcome, finished, chan, sent, pathIno, ioErrors >>
       \/ /\ read_bytes > 0
          /\ UNCHANGED ioErrors
          /\ \/ /\ Local(w, AfterRead(w, br), bytes_written[w], br,
                         temp_file[w], rf, buf, None)
                /\ UNCHANGED << outcome, finished, chan, sent, pathIno >>
             \/ TimedSend(w, ProgressUpdate(br, c.file_size),
                          AfterRead(w, br), bytes_written[w], br,
                          temp_file[w], rf, buf)
    /\ UNCHANGED << ino, shortWrites >>
    /\ Keep

\* ------------------------------------------------------ progress aggregation
RECURSIVE SumOver(_, _)
SumOver(f, S) ==
    IF S = {} THEN 0
    ELSE LET x == CHOOSE y \in S : TRUE IN f[x] + SumOver(f, S \ {x})

\* an f64 quotient, kept as the fraction it is
Quotient(a, b) == [num |-> a, den |-> b]

\* a total that is not divided by the number of workers
throughput_sum(total_throughput, active_workers) ==
    Quotient(total_throughput, 1)

\* avg_throughput_mbps
avg_throughput(total_throughput, active_workers) ==
    IF active_workers > 0 THEN Quotient(total_throughput, active_workers)
    ELSE Quotient(0, 1)

\* aggregate_progress over the latest update of every worker (elapsed and
\* eta are not modelled)
aggregate_progress(wp) ==
    LET present == {w \in DOMAIN wp : wp[w].some} IN
    [total_bytes_processed |->
        SumOver([w \in present |-> wp[w].v.bytes_processed], present),
     total_bytes_target |->
        SumOver([w \in present |-> wp[w].v.total_bytes], present),
     avg_throughput_mbps |->
        avg_throughput(
            SumOver([w \in present |-> wp[w].v.throughput_mbps], present),
            Cardinality(present)),
     total_iops |-> SumOver([w \in present |-> wp[w].v.iops], present),
     active_workers |-> Cardinality(present),
     worker_progress |-> [w \in present |-> wp[w].v]]

\* an update that reports any progress at all
Progressing(u) == u.total_bytes # 0 /\ u.bytes_processed > 0

\* ProgressUpdate::completion_percentage() >= 1.0
Complete(u) == u.total_bytes # 0 /\ u.bytes_processed >= u.total_bytes

\* a test that is content with one finished worker
any_done(wp) == \E w \in DOMAIN wp : wp[w].some /\ Complete(wp[w].v)

all_done(wp) == \A w \in DOMAIN wp : wp[w].some /\ Complete(wp[w].v)

\* the task ends: its receivers are dropped with what they still hold
AggStop ==
    /\ aggPc' = "stopped"
    /\ chanRx' = [w \in Ids |-> FALSE]

AggAfterSend(wp) ==
    IF all_done(wp)
    THEN AggStop
    ELSE /\ aggPc' = "poll"
         /\ UNCHANGED chanRx

\* one round of the loop in which a snapshot is emitted: every receiver is
\* polled once, then the snapshot is sent because an update came in or 200 ms
\* have passed
AggTick ==
    /\ aggPc = "poll"
    /\ LET got == {w \in WorkerIds : chan[w] # << >>}
           wp == [w \in WorkerIds |->
                    IF w \in got THEN Some(Head(chan[w]))
                    ELSE worker_progress[w]]
           snapshot == aggregate_progress(wp)
       IN
       /\ worker_progress' = [w \in Ids |->
                                IF w \in WorkerIds THEN wp[w]
                                ELSE worker_progress[w]]
       /\ IF ~aggRx
          THEN /\ AggStop
               /\ chan' = [w \in Ids |-> << >>]
               /\ UNCHANGED aggChan
          ELSE /\ chan' = [w \in Ids |->
                             IF w \in got THEN Tail(chan[w]) ELSE chan[w]]
               /\ IF Len(aggChan) < AggCap
                  THEN /\ aggChan' = Append(aggChan, snapshot)
                       /\ AggAfterSend(wp)
                  ELSE /\ aggPc' = "sending"
                       /\ UNCHANGED << aggChan, chanRx >>
    /\ UNCHANGED << otherSpecs, config, mgrVars, cancelCh, pc, worker_config,
                    bytes_written, bytes_read, temp_file, read_file, buffer,
                    pending, outcome, sent, finished, fsVars, ioErrors,
                    shortWrites, aggRx >>

\* the suspended send of a snapshot is resumed; the snapshot it holds was
\* built from worker_progress, which has not changed since
AggResume ==
    /\ aggPc = "sending"
    /\ IF ~aggRx
       THEN /\ AggStop
            /\ chan' = [w \in Ids |-> << >>]
            /\ UNCHANGED aggChan
       ELSE /\ Len(aggChan) < AggCap
            /\ aggChan' = Append(aggChan,
                   aggregate_progress([w \in WorkerIds |-> worker_progress[w]]))
            /\ AggAfterSend([w \in WorkerIds |-> worker_progress[w]])
            /\ UNCHANGED chan
    /\ UNCHANGED << otherSpecs, config, mgrVars, cancelCh, pc, worker_config,
                    bytes_written, bytes_read, temp_file, read_file, buffer,
                    pending, outcome, sent, finished, fsVars, ioErrors,
                    shortWrites, worker_progress, aggRx >>

\* ------------------------------------------------------------------ caller
\* progress_rx.recv() / try_recv() by the caller
AggRecv ==
    /\ aggRx
    /\ aggChan # << >>
    /\ aggChan' = Tail(aggChan)
    /\ UNCHANGED << otherSpecs, config, mgrVars, cancelCh, pc, worker_config,
                    bytes_written, bytes_read, temp_file, read_file, buffer,
                    pending, outcome, chan, chanRx, sent, finished, fsVars,
                    ioErrors, shortWrites, aggPc, worker_progress, aggRx >>

\* the caller drops the aggregated receiver
AggDrop ==
    /\ aggRx
    /\ started = "Ok"
    /\ aggRx' = FALSE
    /\ aggChan' = << >>
    /\ UNCHANGED << otherSpecs, config, mgrVars, cancelCh, pc, worker_config,
                    bytes_written, bytes_read, temp_file, read_file, buffer,
                    pending, outcome, chan, chanRx, sent, finished, fsVars,
                    ioErrors, shortWrites, aggPc, worker_progress >>

Task(w) ==
    \/ TaskStart(w)
    \/ SelectCancel(w)
    \/ Placeholder(w)
    \/ PlaceholderEnd(w)
    \/ RunCreate(w)
    \/ RunWrite(w)
    \/ RunSync(w)
    \/ RunFinal(w)
    \/ ResumeSend(w)
    \/ ResumeFinal(w)
    \/ CancelSuspended(w)
    \/ RunFill(w)
    \/ RunFillSync(w)
    \/ RunOpenRead(w)
    \/ RunRead(w)

Next ==
    \/ start_benchmark
    \/ cancel_all
    \/ WaitBegin
    \/ WaitJoin
    \/ WaitReturn
    \/ \E w \in Ids : Task(w)
    \/ AggTick
    \/ AggResume
    \/ AggRecv
    \/ AggDrop

Spec == Init /\ [][Next]_vars


mainVars ==
    << config, mgrVars, cancelCh, pc, worker_config, bytes_written,
       bytes_read, temp_file, read_file, buffer, pending, outcome, chan,
       chanRx, sent, finished, fsVars, ioErrors, shortWrites, aggVars >>

\* the manager is not used in the specifications of the pool and of
\* combine_results
DefaultConfig ==
    [mode |-> "SequentialWrite", disk_path |-> "target_dir",
     file_size |-> 512, block_size |-> 512, duration |-> 30,
     thread_count |-> 1, keep_temp_files |-> FALSE, read_ratio |-> Ratio(5)]

\* ------------------------------------------------------------- buffer pool
PoolBufferSizes == {1, 2}
PoolMaxBuffers == {1, 2}
Clients == 1..PoolClients

\* BufferPool::new succeeds for non-zero arguments only; what a client holds
\* is a bag of buffers
InitPool ==
    /\ ManagerInit(DefaultConfig)
    /\ CombineIdle
    /\ FnIdle
    /\ pool = << >>
    /\ poolCfg \in [buffer_size : PoolBufferSizes, max_buffers : PoolMaxBuffers]
    /\ held = [c \in Clients |-> EmptyBag]
    /\ released = 0

Take(c, b) == [held EXCEPT ![c] = @ (+) SetToBag({b})]
Give(c, b) == [held EXCEPT ![c] = @ (-) SetToBag({b})]

\* get_buffer, under the pool's mutex: the front of the deque, or a new
\* zeroed buffer of buffer_size bytes
get_buffer(c) ==
    /\ BagCardinality(held[c]) < MaxHeld
    /\ held' = Take(c, IF pool # << >> THEN Head(pool)
                       ELSE Zeros(poolCfg.buffer_size))
    /\ pool' = IF pool # << >> THEN Tail(pool) ELSE pool
    /\ released' = IF pool' = << >> THEN 0 ELSE -1
    /\ UNCHANGED << poolCfg, combVars, fnVars, mainVars >>

\* a return that queues the buffer as the holder left it
return_buffer_unfilled(buffers, b) ==
    IF Len(b) = poolCfg.buffer_size /\ Len(buffers) < poolCfg.max_buffers
    THEN Append(buffers, b)
    ELSE buffers

\* a capacity test that is off by one
return_buffer_off_by_one(buffers, b) ==
    IF Len(b) = poolCfg.buffer_size /\ Len(buffers) <= poolCfg.max_buffers
    THEN Append(buffers, Zeros(Len(b)))
    ELSE buffers

\* the deque after return_buffer(buffer): a buffer of another length, or one
\* that finds the pool full, is dropped; the others are zeroed and queued
return_buffer(buffers, b) ==
    IF Len(b) = poolCfg.buffer_size
    THEN IF Len(buffers) < poolCfg.max_buffers
         THEN Append(buffers, Zeros(Len(b)))
         ELSE buffers
    ELSE buffers

\* a client gives one of its buffers back
Release(c, b) ==
    /\ BagIn(b, held[c])
    /\ pool' = return_buffer(pool, b)
    /\ held' = Give(c, b)
    /\ released' =
         IF released >= 0 /\ Len(b) = poolCfg.buffer_size
         THEN (IF released < MaxReleased THEN released + 1 ELSE -1)
         ELSE released
    /\ UNCHANGED << poolCfg, combVars, fnVars, mainVars >>

\* a client writes into the first byte of a buffer it holds
Scribble(c, b) ==
    /\ BagIn(b, held[c])
    /\ b[1] = 0
    /\ held' = [held EXCEPT ![c] =
                  (@ (-) SetToBag({b})) (+) SetToBag({[b EXCEPT ![1] = 1]})]
    /\ UNCHANGED << pool, poolCfg, released, combVars, fnVars, mainVars >>

\* a client owns a Vec of n bytes that did not come from the pool
Foreign(c, n) ==
    /\ BagCardinality(held[c]) < MaxHeld
    /\ held' = Take(c, [k \in 1..n |-> 1])
    /\ UNCHANGED << pool, poolCfg, released, combVars, fnVars, mainVars >>

NextPool ==
    \/ \E c \in Clients : get_buffer(c)
    \/ \E c \in Clients : \E b \in BagToSet(held[c]) : Release(c, b)
    \/ \E c \in Clients : \E b \in BagToSet(held[c]) : Scribble(c, b)
    \/ \E c \in Clients :
         \E n \in {poolCfg.buffer_size, poolCfg.buffer_size + 1} : Foreign(c, n)

SpecPool == InitPool /\ [][NextPool]_vars

\* --------------------------------------------------------- combine_results
Durations == {1, 3}
ByteCounts == {0, 512, 1025}

LatencyStats(min, avg, max, percentiles) ==
    [min |-> min, avg |-> avg, max |-> max, percentiles |-> percentiles]

\* results an executor can return: the latency of one sample, or of samples
\* between 1 and 3
ResultInputs ==
    [config : {DefaultConfig},
     metrics : [bytes_processed : ByteCounts, elapsed_time : Durations,
                latency : {LatencyStats(1, 1, 1, [p \in {50, 95, 99} |-> 1]),
                           LatencyStats(1, 2, 3, [p \in {50, 95, 99} |-> 3])}]]

RECURSIVE SeqsUpTo(_, _)
SeqsUpTo(S, n) ==
    IF n = 0 THEN {<< >>}
    ELSE LET shorter == SeqsUpTo(S, n - 1) IN
         shorter \cup {Append(q, x) : q \in {r \in shorter : Len(r) = n - 1},
                                      x \in S}

RECURSIVE FoldBytes(_, _)
\* `for result in &results { total_bytes += result.metrics.bytes_processed }`
\* (u64; 64 workers of at most 100 GiB stay far below 2^64)
FoldBytes(rs, acc) ==
    IF rs = << >> THEN acc
    ELSE FoldBytes(Tail(rs), acc + Head(rs).metrics.bytes_processed)

\* the clone of the first result, its byte count left as it was
first_bytes(rs) == rs[1].metrics.bytes_processed

\* total_bytes after the loop over the results
total_bytes(rs) == FoldBytes(rs, 0)

RECURSIVE FoldElapsed(_, _)
FoldElapsed(rs, acc) ==
    IF rs = << >> THEN acc
    ELSE FoldElapsed(Tail(rs), Max(acc, Head(rs).metrics.elapsed_time))

RECURSIVE LatencySamples(_)
LatencySamples(rs) ==
    IF rs = << >> THEN << >>
    ELSE << Head(rs).metrics.latency.min, Head(rs).metrics.latency.avg,
            Head(rs).metrics.latency.max >> \o LatencySamples(Tail(rs))

RECURSIVE SumSeq(_)
SumSeq(q) == IF q = << >> THEN 0 ELSE Head(q) + SumSeq(Tail(q))

\* combine_results (throughput and iops are floating point and left out)
combine_results(rs) ==
    IF rs = << >>
    THEN [ok |-> FALSE, err |-> "No results to combine"]
    ELSE LET all == SortSeq(LatencySamples(rs), LAMBDA a, b : a < b)
             n == Len(all)
             latency ==
                LatencyStats(all[1], SumSeq(all) \div n, all[n],
                             [p \in {50, 95, 99} |-> all[(n * p) \div 100 + 1]])
         IN [ok |-> TRUE,
             v |-> [rs[1] EXCEPT !.metrics =
                      [bytes_processed |-> total_bytes(rs),
                       elapsed_time |-> FoldElapsed(rs, 0),
                       latency |-> latency]]]

InitCombine ==
    /\ ManagerInit(DefaultConfig)
    /\ PoolIdle
    /\ FnIdle
    /\ cIn \in SeqsUpTo(ResultInputs, MaxResults)
    /\ cOut = None

Combine ==
    /\ ~cOut.some
    /\ cOut' = Some(combine_results(cIn))
    /\ UNCHANGED << cIn, poolVars, fnVars, mainVars >>

NextCombine == Combine

SpecCombine == InitCombine /\ [][NextCombine]_vars


\* ------------------------------------------------------ aggregate_progress
\* the slots of worker_progress: no update yet, or the latest update
UpdateInputs ==
    [bytes_processed : {0, 512}, total_bytes : {512},
     throughput_mbps : {0, 3}, iops : {0, 7}]

SlotInputs == {None} \cup {Some(u) : u \in UpdateInputs}

InitAggregate ==
    /\ ManagerInit(DefaultConfig)
    /\ PoolIdle
    /\ CombineIdle
    /\ arg \in [Ids -> SlotInputs]
    /\ rnd = RndNone
    /\ AuxIdle
    /\ ret = None

Aggregate ==
    /\ ~ret.some
    /\ ret' = Some(aggregate_progress(arg))
    /\ UNCHANGED << arg, rnd, auxVars, poolVars, combVars, mainVars >>

NextAggregate == Aggregate

SpecAggregate == InitAggregate /\ [][NextAggregate]_vars

\* ------------------------------------------------------ latency statistics
\* latencies in nanoseconds
SampleValues == {1, 2, 5}

\* samples used in the order they were taken
unsorted(samples) == samples

\* sorted.sort()
sort(samples) == SortSeq(samples, LAMBDA a, b : a < b)

\* sorted.len() * p / 100, an index counted from 0
percentile_index(n, p) == (n * p) \div 100

\* LatencyStats::default(): zero durations and an empty map
DefaultLatencyStats == LatencyStats(0, 0, 0, << >>)

\* LatencyStats::from_samples
from_samples(samples) ==
    IF samples = << >> THEN DefaultLatencyStats
    ELSE LET sorted == sort(samples)
             n == Len(sorted)
         IN LatencyStats(sorted[1], SumSeq(sorted) \div n, sorted[n],
                [p \in {50, 95, 99} |-> sorted[percentile_index(n, p) + 1]])

\* SequentialBenchmark::calculate_metrics (throughput and iops are floating
\* point and left out)
calculate_metrics(bytes_processed, elapsed, latency_samples) ==
    [bytes_processed |-> bytes_processed,
     elapsed_time |-> elapsed,
     latency |->
        IF latency_samples # << >>
        THEN LET sorted_samples == sort(latency_samples)
                 n == Len(sorted_samples)
             IN LatencyStats(sorted_samples[1],
                    SumSeq(sorted_samples) \div n, sorted_samples[n],
                    [p \in {50, 95, 99} |->
                        sorted_samples[percentile_index(n, p) + 1]])
        ELSE LatencyStats(0, 0, 0, << >>)]

InitLatency ==
    /\ ManagerInit(DefaultConfig)
    /\ PoolIdle
    /\ CombineIdle
    /\ arg \in SeqsUpTo(SampleValues, MaxSamples)
    /\ rnd = RndNone
    /\ AuxIdle
    /\ ret = None

FromSamples ==
    /\ ~ret.some
    /\ ret' = Some([fn |-> "from_samples", latency |-> from_samples(arg)])
    /\ UNCHANGED << arg, rnd, auxVars, poolVars, combVars, mainVars >>

CalculateMetrics ==
    /\ ~ret.some
    /\ ret' = Some([fn |-> "calculate_metrics",
                    latency |-> calculate_metrics(512, 1, arg).latency])
    /\ UNCHANGED << arg, rnd, auxVars, poolVars, combVars, mainVars >>

NextLatency == FromSamples \/ CalculateMetrics

SpecLatency == InitLatency /\ [][NextLatency]_vars

\* ------------------------------------------------------------ validation
\* field values on both sides of every limit validate tests
ValidatePaths == {"target_dir", "a_file", "missing"}
ValidateFileSizes == {0, 511, 512, 1025}
ValidateBlockSizes == {0, 256, 512, 768, 1024 * 1024, 2 * 1024 * 1024}
ValidateDurations == {0, 30, 3600, 3601}
ValidateThreads == {0, 1, 64, 65}
ValidateRatios == {Ratio(-1), Ratio(0), Ratio(5), Ratio(10), Ratio(11), NaN}

AllConfigs ==
    [mode : Modes, disk_path : ValidatePaths, file_size : ValidateFileSizes,
     block_size : ValidateBlockSizes, duration : ValidateDurations,
     thread_count : ValidateThreads, keep_temp_files : {FALSE},
     read_ratio : ValidateRatios]

InitValidate ==
    /\ ManagerInit(DefaultConfig)
    /\ PoolIdle
    /\ CombineIdle
    /\ arg \in AllConfigs
    /\ rnd = RndNone
    /\ AuxIdle
    /\ ret = None

\* config.validate(): Ok(()) or Err(ConfigError)
Validate ==
    /\ ~ret.some
    /\ ret' = Some(IF validate(arg) THEN "Ok" ELSE "ConfigError")
    /\ UNCHANGED << arg, rnd, auxVars, poolVars, combVars, mainVars >>

SpecValidate == InitValidate /\ [][Validate]_vars

\* ------------------------------------------------------- random executor
\* configs handed to a constructor: every valid one and one per kind of
\* validation failure
InvalidConfigs ==
    { [DefaultConfig EXCEPT !.disk_path = "missing"],
      [DefaultConfig EXCEPT !.file_size = 0],
      [DefaultConfig EXCEPT !.block_size = 768],
      [DefaultConfig EXCEPT !.duration = 0],
      [DefaultConfig EXCEPT !.mode = "Mixed", !.read_ratio = Ratio(11)] }

NewConfigs == Configs \cup InvalidConfigs

\* a constructor without the call of validate
skip_validate(c) == "Ok"

\* config.validate()? at the top of every constructor
try_validate(c) == IF validate(c) THEN "Ok" ELSE "ConfigError"

\* what the manager's variables do not share with the random executor
notRnd ==
    << arg, auxVars, poolVars, combVars, config, mgrVars, cancelCh, pc, worker_config,
       bytes_written, bytes_read, temp_file, read_file, buffer, pending,
       outcome, chan, chanRx, sent, finished, aggVars >>

\* RandomBenchmark::new
RandomBenchmarkNew ==
    /\ ~ret.some
    /\ ret' = Some([type |-> "RandomBenchmark", result |-> try_validate(arg)])
    /\ rnd' = [rnd EXCEPT !.pc = IF try_validate(arg) = "Ok" THEN "built"
                                 ELSE "none"]
    /\ UNCHANGED << notRnd, fsVars, ioErrors, shortWrites >>

\* arguments of run: read_ratio
RunRatios == {Ratio(0), Ratio(5), Ratio(10)}
\* offsets the generator is asked for, kept when they lie in the range
SampleOffsets == {0, 512}
\* (ratio * 1000.0) as u64 of a timed update
RatioPermille == {0, 500, 1000}

\* run returns res: the handles, the buffer and the TempFile are dropped
RndFinish(r, res) ==
    /\ rnd' = [r EXCEPT !.pc = "done", !.outcome = Some(res),
                  !.temp_file = NoFile, !.read_file = NoFile,
                  !.write_file = NoFile, !.buffer = << >>,
                  !.pending = None]
    /\ pathIno' = DropTempFile(rnd.temp_file)

RndErr(kind) == [ok |-> FALSE, kind |-> kind]
RndOk(r) ==
    [ok |-> TRUE, bytes_processed |-> r.bytes_processed,
     operations |-> r.operations]

\* an I/O call fails and `?` leaves run
RndIoError(kind) ==
    /\ ioErrors < MaxIoErrors
    /\ ioErrors' = ioErrors + 1
    /\ RndFinish(rnd, RndErr(kind))
    /\ UNCHANGED << ino, shortWrites >>

\* run up to the pre-fill loop: create_temp_file, keep_on_drop, get_buffer,
\* the pattern copied into the buffer
RndCreate ==
    /\ rnd.pc = "built"
    /\ \/ RndIoError("TempFileError")
       \/ \E ratio \in RunRatios :
            /\ create_temp_file(0)
            /\ rnd' = [rnd EXCEPT
                 !.pc = "fill",
                 !.read_ratio = ratio,
                 !.temp_file =
                     [open |-> TRUE, path |-> temp_path(0, arg.disk_path),
                      ino |-> pathIno', off |-> 0,
                      cleanup_on_drop |-> ~arg.keep_temp_files],
                 !.buffer = create_test_pattern(arg.block_size)]
            /\ UNCHANGED << ioErrors, shortWrites >>
    /\ UNCHANGED << notRnd, ret >>

\* the byte counts one write_direct can return
RndWriteCounts(write_size) ==
    {write_size} \cup
    (IF shortWrites < MaxShortWrites
     THEN {n \in ShortCounts : n < write_size} ELSE {})

\* one iteration of the pre-fill loop: the count write_direct returns is
\* dropped and bytes_written grows by write_size
RndFill ==
    /\ rnd.pc = "fill"
    /\ LET remaining == arg.file_size - rnd.bytes_written
           write_size == Min(remaining, arg.block_size)
           write_buf == Prefix(rnd.buffer, write_size)
       IN
       \/ RndIoError("BenchmarkError")
       \/ \E written \in RndWriteCounts(write_size) :
            /\ shortWrites' =
                 IF written < write_size THEN shortWrites + 1 ELSE shortWrites
            /\ ino' = [ino EXCEPT ![rnd.temp_file.ino] =
                         FsWrite(@, rnd.temp_file.off,
                                 Prefix(write_buf, written))]
            /\ rnd' = [rnd EXCEPT
                 !.temp_file.off = @ + written,
                 !.bytes_written = @ + write_size,
                 !.pc = IF rnd.bytes_written + write_size < arg.file_size
                        THEN "fill" ELSE "sync"]
            /\ UNCHANGED << pathIno, ioErrors >>
    /\ UNCHANGED << notRnd, ret >>

\* temp_file.file.sync_all()
RndSync ==
    /\ rnd.pc = "sync"
    /\ \/ RndIoError("BenchmarkError")
       \/ /\ rnd' = [rnd EXCEPT !.pc = "open_read"]
          /\ UNCHANGED << fsVars, ioErrors, shortWrites >>
    /\ UNCHANGED << notRnd, ret >>

\* open_direct_read(temp_file.path())
RndOpenRead ==
    /\ rnd.pc = "open_read"
    /\ \/ RndIoError("BenchmarkError")
       \/ /\ pathIno # 0
          /\ rnd' = [rnd EXCEPT
               !.pc = "open_write",
               !.read_file = [open |-> TRUE, path |-> rnd.temp_file.path,
                              ino |-> pathIno, off |-> 0,
                              cleanup_on_drop |-> FALSE]]
          /\ UNCHANGED << fsVars, ioErrors, shortWrites >>
    /\ UNCHANGED << notRnd, ret >>

\* an open for writing that leaves the contents of the file alone
open_keep(content) == content

\* OpenOptions write(true).create(true).truncate(true): the file is emptied
open_truncate(content) == << >>

\* open_direct_write(temp_file.path())
RndOpenWrite ==
    /\ rnd.pc = "open_write"
    /\ \/ RndIoError("BenchmarkError")
       \/ /\ pathIno # 0
          /\ ino' = [ino EXCEPT ![pathIno] = open_truncate(@)]
          /\ rnd' = [rnd EXCEPT
               !.pc = "loop",
               !.write_file = [open |-> TRUE, path |-> rnd.temp_file.path,
                               ino |-> pathIno, off |-> 0,
                               cleanup_on_drop |-> FALSE]]
          /\ UNCHANGED << pathIno, ioErrors, shortWrites >>
    /\ UNCHANGED << notRnd, ret >>

\* start_time.elapsed() < duration is false: the loop is left
RndLoopEnd ==
    /\ rnd.pc = "loop"
    /\ rnd' = [rnd EXCEPT !.pc = "final"]
    /\ UNCHANGED << notRnd, ret, fsVars, ioErrors, shortWrites >>

\* a draw that does not look at read_ratio
AnyChoice(ratio) == BOOLEAN

\* rng.gen::<f32>() < read_ratio, the random number lying in [0, 1)
IsReadChoices(ratio) ==
    {b \in BOOLEAN : IF b THEN FLess(Ratio(0), ratio)
                     ELSE ~FLess(Ratio(9), ratio)}

\* the timed update after an operation (every 200 ms): nothing is sent, the
\* update is queued, the send is suspended on a full channel, or the
\* receiver is gone and run returns the cancellation error
RndAfterOp(r) ==
    \/ /\ rnd' = r
       /\ UNCHANGED pathIno
    \/ \E permille \in RatioPermille :
         LET update == ProgressUpdate(permille, 1000) IN
         IF ~r.rx
         THEN RndFinish(r, RndErr("CancellationError"))
         ELSE IF Len(r.chan) < ChanCap
         THEN /\ rnd' = [r EXCEPT !.chan = Append(@, update)]
              /\ UNCHANGED pathIno
         ELSE /\ rnd' = [r EXCEPT !.pc = "sendBlocked",
                            !.pending = Some(update)]
              /\ UNCHANGED pathIno

\* one iteration of the timed loop.  gen_range(0..file_size - block_size)
\* panics on an empty range; the counts read_direct and write_direct return
\* are dropped and bytes_processed grows by block_size
RndOp ==
    /\ rnd.pc = "loop"
    /\ rnd.operations < MaxOps
    /\ IF arg.file_size - arg.block_size <= 0
       THEN /\ rnd' = [rnd EXCEPT !.pc = "panicked",
                          !.temp_file = NoFile, !.read_file = NoFile,
                          !.write_file = NoFile, !.buffer = << >>]
            /\ pathIno' = DropTempFile(rnd.temp_file)
            /\ UNCHANGED << ino, ioErrors, shortWrites >>
       ELSE \E offset \in {o \in SampleOffsets :
                              o < arg.file_size - arg.block_size},
               is_read \in IsReadChoices(rnd.read_ratio) :
              \/ RndIoError("BenchmarkError")
              \/ /\ is_read
                 /\ LET data == FsRead(ino[rnd.read_file.ino], offset,
                                       arg.block_size)
                    IN RndAfterOp([rnd EXCEPT
                         !.read_file.off = offset + Len(data),
                         !.buffer = BufOverwrite(@, data),
                         !.read_lens = Append(@, Len(data)),
                         !.bytes_processed = @ + arg.block_size,
                         !.operations = @ + 1])
                 /\ UNCHANGED << ino, ioErrors, shortWrites >>
              \/ /\ ~is_read
                 /\ \E written \in RndWriteCounts(arg.block_size) :
                      /\ shortWrites' =
                           IF written < arg.block_size THEN shortWrites + 1
                           ELSE shortWrites
                      /\ ino' = [ino EXCEPT ![rnd.write_file.ino] =
                                   FsWrite(@, offset,
                                           Prefix(rnd.buffer, written))]
                      /\ RndAfterOp([rnd EXCEPT
                           !.write_file.off = offset + written,
                           !.bytes_processed = @ + arg.block_size,
                           !.operations = @ + 1])
                 /\ UNCHANGED ioErrors
    /\ UNCHANGED << notRnd, ret >>

\* the suspended send of the loop is resumed
RndResumeSend ==
    /\ rnd.pc = "sendBlocked"
    /\ IF ~rnd.rx
       THEN RndFinish(rnd, RndErr("CancellationError"))
       ELSE /\ Len(rnd.chan) < ChanCap
            /\ rnd' = [rnd EXCEPT !.pc = "loop", !.pending = None,
                          !.chan = Append(@, rnd.pending.v)]
            /\ UNCHANGED pathIno
    /\ UNCHANGED << notRnd, ret, ino, ioErrors, shortWrites >>

\* the statistics, the final update 1000 / 1000 and its send, whose failure
\* is ignored
RndFinal ==
    /\ rnd.pc = "final"
    /\ LET update == ProgressUpdate(1000, 1000) IN
       IF ~rnd.rx
       THEN RndFinish(rnd, RndOk(rnd))
       ELSE IF Len(rnd.chan) < ChanCap
       THEN RndFinish([rnd EXCEPT !.chan = Append(@, update)], RndOk(rnd))
       ELSE /\ rnd' = [rnd EXCEPT !.pc = "finalBlocked",
                          !.pending = Some(update)]
            /\ UNCHANGED pathIno
    /\ UNCHANGED << notRnd, ret, ino, ioErrors, shortWrites >>

RndResumeFinal ==
    /\ rnd.pc = "finalBlocked"
    /\ IF ~rnd.rx
       THEN RndFinish(rnd, RndOk(rnd))
       ELSE /\ Len(rnd.chan) < ChanCap
            /\ RndFinish([rnd EXCEPT !.chan = Append(@, rnd.pending.v)],
                         RndOk(rnd))
    /\ UNCHANGED << notRnd, ret, ino, ioErrors, shortWrites >>

\* the caller of run takes an update from the channel
RndRecv ==
    /\ rnd.pc \notin {"none", "built"}
    /\ rnd.rx
    /\ rnd.chan # << >>
    /\ rnd' = [rnd EXCEPT !.chan = Tail(@)]
    /\ UNCHANGED << notRnd, ret, fsVars, ioErrors, shortWrites >>

\* the caller of run drops the receiver
RndDrop ==
    /\ rnd.pc \notin {"none", "built"}
    /\ rnd.rx
    /\ rnd' = [rnd EXCEPT !.rx = FALSE, !.chan = << >>]
    /\ UNCHANGED << notRnd, ret, fsVars, ioErrors, shortWrites >>

RandomRun ==
    \/ RndCreate
    \/ RndFill
    \/ RndSync
    \/ RndOpenRead
    \/ RndOpenWrite
    \/ RndLoopEnd
    \/ RndOp
    \/ RndResumeSend
    \/ RndFinal
    \/ RndResumeFinal
    \/ RndRecv
    \/ RndDrop

InitRandom ==
    /\ ManagerInit(DefaultConfig)
    /\ PoolIdle
    /\ CombineIdle
    /\ arg \in NewConfigs
    /\ ret = None
    /\ rnd = RndNone
    /\ AuxIdle

NextRandom == RandomBenchmarkNew \/ RandomRun

SpecRandom == InitRandom /\ [][NextRandom]_vars

\* ------------------------------------------------------------ constructors
\* WorkerManager::new: the manager exists when validation passed
WorkerManagerNew ==
    /\ ~ret.some
    /\ ret' = Some([type |-> "WorkerManager", result |-> try_validate(arg)])
    /\ IF try_validate(arg) = "Ok"
       THEN /\ config' = arg
            /\ worker_config' = [w \in Ids |-> arg]
       ELSE UNCHANGED << config, worker_config >>
    /\ UNCHANGED << arg, rnd, auxVars, poolVars, combVars, mgrVars, cancelCh, pc,
                    bytes_written, bytes_read, temp_file, read_file, buffer,
                    pending, outcome, chan, chanRx, sent, finished, fsVars,
                    ioErrors, shortWrites, aggVars >>

\* SequentialBenchmark::new called by itself (spawn_sequential_worker calls
\* it inside start_benchmark)
SequentialBenchmarkNew ==
    /\ ~ret.some
    /\ ret' = Some([type |-> "SequentialBenchmark",
                    result |-> try_validate(arg)])
    /\ UNCHANGED << arg, rnd, auxVars, poolVars, combVars, mainVars >>

\* the manager's operations need a manager
ManagerBuilt ==
    /\ ret.some
    /\ ret.v.type = "WorkerManager"
    /\ ret.v.result = "Ok"

InitNew ==
    /\ ManagerInit(DefaultConfig)
    /\ PoolIdle
    /\ CombineIdle
    /\ arg \in NewConfigs
    /\ ret = None
    /\ rnd = RndNone
    /\ AuxIdle

NextNew ==
    \/ WorkerManagerNew
    \/ SequentialBenchmarkNew
    \/ RandomBenchmarkNew
    \/ ManagerBuilt /\ Next
    \/ RandomRun

SpecNew == InitNew /\ [][NextNew]_vars

\* ------------------------------------------------------- PlatformDiskIO
notDio == << arg, ret, rnd, retry, poolVars, combVars, mainVars >>

\* a write_direct that never flushes
never_sync(use_fsync) == FALSE

\* write_direct: `if self.use_fsync { self.file.sync_all()?; }`
sync_after_write(use_fsync) == use_fsync

\* open_direct_write: the open with O_DIRECT, and when it fails the same open
\* without it, whose handle is UnixDirectFile::new(file, true); the error of
\* the second open is the error returned
OpenDirectWrite ==
    /\ dio.pc = "closed"
    /\ \E direct, buffered \in BOOLEAN :
         dio' = [dio EXCEPT
           !.pc = IF direct \/ buffered THEN "open" ELSE "failed",
           !.mode = "write",
           !.direct_ok = direct,
           !.buffered_ok = ~direct /\ buffered,
           !.use_fsync = ~direct /\ buffered]
    /\ UNCHANGED notDio

\* open_direct_read: the same two opens, both handles being
\* UnixDirectFile::new(file, false)
OpenDirectRead ==
    /\ dio.pc = "closed"
    /\ \E direct, buffered \in BOOLEAN :
         dio' = [dio EXCEPT
           !.pc = IF direct \/ buffered THEN "open" ELSE "failed",
           !.mode = "read",
           !.direct_ok = direct,
           !.buffered_ok = ~direct /\ buffered,
           !.use_fsync = FALSE]
    /\ UNCHANGED notDio

\* UnixDirectFile::write_direct: file.write(buf)?, then sync_all()? on a
\* handle with use_fsync, then Ok(result)
WriteDirect ==
    /\ dio.pc = "open"
    /\ dio.mode = "write"
    /\ Len(dio.calls) < MaxDiskOps
    /\ \E write_ok \in BOOLEAN :
         LET sync_called == write_ok /\ sync_after_write(dio.use_fsync) IN
         \E sync_ok \in {b \in BOOLEAN : sync_called \/ ~b} :
           dio' = [dio EXCEPT !.calls = Append(@,
                     [op |-> "write",
                      ok |-> write_ok /\ (sync_called => sync_ok),
                      sync_called |-> sync_called,
                      flushed |-> sync_called /\ sync_ok])]
    /\ UNCHANGED notDio

\* UnixDirectFile::read_direct: file.read(buf)
ReadDirect ==
    /\ dio.pc = "open"
    /\ dio.mode = "read"
    /\ Len(dio.calls) < MaxDiskOps
    /\ \E read_ok \in BOOLEAN :
         dio' = [dio EXCEPT !.calls = Append(@,
                   [op |-> "read", ok |-> read_ok, sync_called |-> FALSE,
                    flushed |-> FALSE])]
    /\ UNCHANGED notDio

InitDisk ==
    /\ ManagerInit(DefaultConfig)
    /\ PoolIdle
    /\ CombineIdle
    /\ FnIdle

NextDisk == OpenDirectWrite \/ OpenDirectRead \/ WriteDirect \/ ReadDirect

SpecDisk == InitDisk /\ [][NextDisk]_vars

\* ------------------------------------------------------ error conversion
\* std::io::ErrorKind of the error a storage operation raises (ENOSPC is
\* StorageFull, EACCES and EPERM are PermissionDenied, ENOMEM is OutOfMemory)
IoErrorKinds ==
    {"PermissionDenied", "StorageFull", "OutOfMemory", "NotFound",
     "InvalidInput", "Other"}

\* impl From<std::io::Error> for DIOrbError
from_io_error(kind) ==
    CASE kind = "PermissionDenied" -> "PermissionDenied"
      [] kind = "OutOfMemory" -> "InsufficientSpace"
      [] OTHER -> "IoError"

\* the storage calls of the executors and what each does with an io::Error:
\* `?` converts it with From, map_err replaces it by the kind named
Site(executor, call, conversion) ==
    [executor |-> executor, call |-> call, conversion |-> conversion]

StorageSites ==
    { Site("run_sequential_write", "create_temp_file", "From"),
      Site("run_sequential_write", "write_direct", "BenchmarkError"),
      Site("run_sequential_write", "sync_all", "BenchmarkError"),
      Site("run_sequential_read", "create_temp_file", "From"),
      Site("run_sequential_read", "fill write_direct", "BenchmarkError"),
      Site("run_sequential_read", "fill sync_all", "BenchmarkError"),
      Site("run_sequential_read", "open_direct_read", "From"),
      Site("run_sequential_read", "read_direct", "BenchmarkError"),
      Site("RandomBenchmark::run", "create_temp_file", "TempFileError"),
      Site("RandomBenchmark::run", "fill write_direct", "BenchmarkError"),
      Site("RandomBenchmark::run", "sync_all", "BenchmarkError"),
      Site("RandomBenchmark::run", "open_direct_read", "BenchmarkError"),
      Site("RandomBenchmark::run", "open_direct_write", "BenchmarkError"),
      Site("RandomBenchmark::run", "read seek_direct", "BenchmarkError"),
      Site("RandomBenchmark::run", "read_direct", "BenchmarkError"),
      Site("RandomBenchmark::run", "write seek_direct", "BenchmarkError"),
      Site("RandomBenchmark::run", "write_direct", "BenchmarkError") }

\* the DIOrbError kind the executor returns
executor_error(site, kind) ==
    IF site.conversion = "From" THEN from_io_error(kind)
    ELSE site.conversion

\* the format string of the message the executor puts into the error, split
\* at its arguments ("{e}" is the io::Error, an empty message: the error is
\* passed on by `?` as it is)
error_message(site) ==
    CASE site.conversion = "From" -> << >>
      [] site.conversion = "TempFileError" -> << "{e}" >>
      [] site.executor = "run_sequential_write" /\ site.call = "write_direct"
            -> << "Write failed at byte ", "{bytes_written}", ": ", "{e}" >>
      [] site.executor = "run_sequential_write" /\ site.call = "sync_all"
            -> << "Sync failed: ", "{e}" >>
      [] site.executor = "run_sequential_read"
            /\ site.call = "fill write_direct"
            -> << "Test file creation failed at byte ", "{bytes_written}",
                  ": ", "{e}" >>
      [] site.executor = "run_sequential_read" /\ site.call = "fill sync_all"
            -> << "Test file sync failed: ", "{e}" >>
      [] site.executor = "run_sequential_read" /\ site.call = "read_direct"
            -> << "Read failed at byte ", "{bytes_read}", ": ", "{e}" >>
      [] site.call \in {"fill write_direct", "write_direct"}
            -> << "Write failed: ", "{e}" >>
      [] site.call = "sync_all" -> << "Sync failed: ", "{e}" >>
      [] site.call = "open_direct_read" -> << "Open read failed: ", "{e}" >>
      [] site.call = "open_direct_write" -> << "Open write failed: ", "{e}" >>
      [] site.call \in {"read seek_direct", "write seek_direct"}
            -> << "Seek failed: ", "{e}" >>
      [] site.call = "read_direct" -> << "Read failed: ", "{e}" >>

InitErrors ==
    /\ ManagerInit(DefaultConfig)
    /\ PoolIdle
    /\ CombineIdle
    /\ arg \in [site : StorageSites, kind : IoErrorKinds]
    /\ ret = None
    /\ rnd = RndNone
    /\ AuxIdle

\* the storage call fails and the executor returns the error to its caller
ExecutorFails ==
    /\ ~ret.some
    /\ ret' = Some([caller |-> "executor",
                    kind |-> executor_error(arg.site, arg.kind),
                    message |-> error_message(arg.site)])
    /\ UNCHANGED << arg, rnd, auxVars, poolVars, combVars, mainVars >>

\* wait_for_completion: `Ok(Err(e)) => return Err(e)` for the task that ran
\* a sequential executor
WaitForCompletionFails ==
    /\ ret.some
    /\ ret.v.caller = "executor"
    /\ arg.site.executor # "RandomBenchmark::run"
    /\ ret' = Some([caller |-> "orchestrator", kind |-> ret.v.kind,
                    message |-> ret.v.message])
    /\ UNCHANGED << arg, rnd, auxVars, poolVars, combVars, mainVars >>

NextErrors == ExecutorFails \/ WaitForCompletionFails

SpecErrors == InitErrors /\ [][NextErrors]_vars

\* ------------------------------------------------------------ retry_async
notRetry == << arg, ret, rnd, dio, poolVars, combVars, mainVars >>

\* io::ErrorKind values is_retryable_error names, and two it does not
TransientIoKinds ==
    {"Interrupted", "WouldBlock", "TimedOut", "ConnectionAborted",
     "ConnectionReset"}

\* errors an operation can return
IoError(kind) == [type |-> "IoError", io_kind |-> kind]
Error(type) == [type |-> type, io_kind |-> "none"]
OperationErrors ==
    {IoError("Interrupted"), IoError("TimedOut"), IoError("NotFound"),
     Error("PermissionDenied"), Error("ConfigError"),
     Error("DirectIoUnsupported"), Error("CancellationError"),
     Error("TempFileError"), Error("BenchmarkError")}

OkResult == [ok |-> TRUE]
ErrResult(e) == [ok |-> FALSE, err |-> e]

\* a test that lets every error be retried
retry_everything(error) == TRUE

\* error::is_retryable_error
is_retryable_error(error) ==
    CASE error.type = "IoError" -> error.io_kind \in TransientIoKinds
      [] error.type \in {"TempFileError", "WorkerError"} -> TRUE
      [] error.type \in {"PermissionDenied", "ConfigError",
                         "DirectIoUnsupported", "CancellationError"} -> FALSE
      [] OTHER -> TRUE

\* RetryConfig: the delays are in milliseconds
RetryConfigs ==
    [max_attempts : 0..MaxAttempts, initial_delay : {100},
     backoff_multiplier : {2}, max_delay : {150, 5000}]

InitRetry ==
    /\ ManagerInit(DefaultConfig)
    /\ PoolIdle
    /\ CombineIdle
    /\ arg = << >>
    /\ ret = None
    /\ rnd = RndNone
    /\ dio = DioClosed
    /\ \E c \in RetryConfigs :
         retry = [RetryIdle EXCEPT !.pc = "loop", !.config = c,
                     !.delay = c.initial_delay]

\* one iteration of `for attempt in 0..config.max_attempts` up to its
\* return, its break or its sleep
RetryCall ==
    /\ retry.pc = "loop"
    /\ retry.attempt < retry.config.max_attempts
    /\ \/ retry' = [retry EXCEPT !.pc = "returned",
                       !.calls = Append(@, OkResult),
                       !.result = Some(OkResult)]
       \/ \E err \in OperationErrors :
            LET called == [retry EXCEPT !.calls = Append(@, ErrResult(err)),
                              !.last_error = Some(err)]
            IN
            IF ~is_retryable_error(err)
            THEN retry' = [called EXCEPT !.pc = "returned",
                              !.result = Some(ErrResult(err))]
            ELSE IF retry.attempt < retry.config.max_attempts - 1
            THEN retry' = [called EXCEPT !.pc = "sleeping"]
            ELSE retry' = [called EXCEPT !.pc = "returned",
                              !.attempt = @ + 1,
                              !.result = Some(ErrResult(err))]
    /\ UNCHANGED notRetry

\* sleep(delay) is over: the delay is multiplied and capped, the next
\* iteration starts
RetrySleepEnd ==
    /\ retry.pc = "sleeping"
    /\ retry' = [retry EXCEPT
         !.pc = "loop",
         !.attempt = @ + 1,
         !.delay = Min(retry.delay * retry.config.backoff_multiplier,
                       retry.config.max_delay)]
    /\ UNCHANGED notRetry

\* a loop of no iteration: last_error is None and unwrap_or_else makes the
\* error
RetryNoAttempt ==
    /\ retry.pc = "loop"
    /\ retry.attempt >= retry.config.max_attempts
    /\ retry' = [retry EXCEPT !.pc = "returned",
                    !.result = Some(ErrResult(Error("BenchmarkError")))]
    /\ UNCHANGED notRetry

NextRetry == RetryCall \/ RetrySleepEnd \/ RetryNoAttempt

SpecRetry == InitRetry /\ [][NextRetry]_vars

\* ------------------------------------------------------------- properties
\* C1: for every non-empty list of per-worker results, combine_results
\* returns a result whose metrics.bytes_processed is the sum of the
\* bytes_processed of all the results of the list.
C1_CombineSumsBytes ==
    (cOut.some /\ cIn # << >>) =>
        /\ cOut.v.ok
        /\ cOut.v.v.metrics.bytes_processed =
             SumOver([i \in 1..Len(cIn) |-> cIn[i].metrics.bytes_processed],
                     1..Len(cIn))

C1_Witness ==
    /\ cOut.some
    /\ Len(cIn) = 2
    /\ cIn[1].metrics.bytes_processed = 512
    /\ cIn[2].metrics.bytes_processed = 1025

\* C2: when cancel_all is called right after start_benchmark, every worker's
\* status is Cancelled or Completed from then on, whatever follows (a
\* wait_for_completion included): none is Running, none has another status.
C2_CancelledOrCompleted ==
    cancelledAfterStart =>
        \A i \in 1..Len(workers) :
            workers[i].status \in {"Cancelled", "Completed"}

\* C3: a worker's status changes only from Idle to Running and from Running
\* to Completed, Failed or Cancelled; a status of Completed, Failed or
\* Cancelled never changes again.  (A worker that is not registered yet
\* counts as Idle.)
StatusSteps ==
    {<< "Idle", "Running" >>, << "Running", "Completed" >>,
     << "Running", "Failed" >>, << "Running", "Cancelled" >>}

StatusBefore(i) == IF i \in 1..Len(workers) THEN workers[i].status ELSE "Idle"

C3_StatusTransitions ==
    [][\A i \in 1..Len(workers') :
          \/ workers'[i].status = StatusBefore(i)
          \/ << StatusBefore(i), workers'[i].status >> \in StatusSteps]_vars

\* C4: in the stream of updates one executor run passes to send, completion
\* never decreases from one update to the next, and the last update of a run
\* that returned a result reports completion 1.0.
C4_ProgressStream ==
    \A w \in Ids :
        /\ \A i \in 1..(Len(sent[w]) - 1) :
              /\ sent[w][i].total_bytes = sent[w][i + 1].total_bytes
              /\ sent[w][i].bytes_processed <= sent[w][i + 1].bytes_processed
        /\ (outcome[w].some /\ outcome[w].v.ok) =>
              /\ sent[w] # << >>
              /\ sent[w][Len(sent[w])].total_bytes # 0
              /\ sent[w][Len(sent[w])].bytes_processed =
                     sent[w][Len(sent[w])].total_bytes

\* C5: two workers of one run that hold scratch files at the same time in
\* the same target directory hold files of different paths.
C5_DistinctScratchPaths ==
    \A a, b \in Ids :
        (a # b /\ temp_file[a].open /\ temp_file[b].open) =>
            temp_file[a].path # temp_file[b].path

\* C6: the pool never holds more than max_buffers buffers, and k matching
\* buffers released into an empty pool leave min(k, max_buffers) pooled.
C6_PoolBounded ==
    /\ Len(pool) <= poolCfg.max_buffers
    /\ released >= 0 => Len(pool) = Min(released, poolCfg.max_buffers)

C6_Witness ==
    /\ released = 3
    /\ poolCfg.max_buffers = 2
    /\ Len(pool) = 2

\* C7: after the write path has filled the scratch file, every read of the
\* read loop returns the whole block it asked for, with the byte i mod 256 at
\* every offset i of the file.  (Stated for the runs of one worker, in which
\* no other task touches the file.)
C7_RoundTrip ==
    \A w \in Ids :
        (config.thread_count = 1 /\ pc[w] = "read") =>
            LET c == worker_config[w]
                read_size == Min(c.file_size - bytes_read[w], c.block_size)
                data == FsRead(ino[read_file[w].ino], read_file[w].off,
                               read_size)
            IN /\ Len(data) = read_size
               /\ \A j \in 1..Len(data) :
                     data[j] = (read_file[w].off + j - 1) % PatternPeriod

\* C8: in a sequential mode with N workers every worker gets the file_size
\* floor(total / N), and every worker that completes reports that share as
\* its bytes_processed.
C8_EvenShare ==
    (started = "Ok" /\ IsSequential(config.mode)) =>
        \A w \in WorkerIds :
            /\ worker_config[w].file_size =
                   config.file_size \div config.thread_count
            /\ (outcome[w].some /\ outcome[w].v.ok) =>
                   outcome[w].v.bytes_processed =
                       config.file_size \div config.thread_count

\* C9: when a worker task has failed, wait_for_completion returns an error
\* and no results: the error of the failing worker registered first; that
\* worker is Failed with the error as its reason.
Failing == {w \in WorkerIds : outcome[w].some /\ ~outcome[w].v.ok}

C10_RegistrationOrder ==
    (/\ started = "Ok"
     /\ waitPc = "returned"
     /\ \A w \in WorkerIds : outcome[w].some /\ outcome[w].v.ok) =>
        /\ waitRet.v.ok
        /\ Len(waitRet.v.results) = config.thread_count
        /\ \A i \in 1..Len(waitRet.v.results) :
              waitRet.v.results[i] = outcome[i - 1].v

C10_Witness ==
    /\ waitPc = "returned"
    /\ waitRet.v.ok
    /\ Len(waitRet.v.results) = 2
    /\ finished = << 1, 0 >>


\* C11: cancel_all changes the Running workers only: each of them is
\* Cancelled when it returns, every other worker is left as it was, and no
\* worker is Running afterwards, so a second call finds nothing to change.
C11_CancelFrame ==
    [][cancel_all =>
          /\ Len(workers') = Len(workers)
          /\ \A i \in 1..Len(workers) :
                /\ workers[i].status = "Running" =>
                       workers'[i].status = "Cancelled"
                /\ workers[i].status # "Running" => workers'[i] = workers[i]
                /\ workers'[i].status # "Running"]_vars

C11_Witness ==
    /\ waitPc = "returned"
    /\ ~cancelledAfterStart
    /\ Len(workers) = 2
    /\ workers[1].status = "Failed"
    /\ workers[2].status = "Cancelled"

\* C12: a worker task ends with the cancellation error only from a point
\* where it is suspended: before the first step of its run, in the sleep of
\* a placeholder, or in a send on the progress channel; it never does from a
\* point between two I/O calls.
C12_CancelAtSuspension ==
    [][\A w \in Ids :
          (/\ outcome'[w] # outcome[w]
           /\ ~outcome'[w].v.ok
           /\ outcome'[w].v.kind \in {"cancelled", "cancelled_before_start"})
          => pc[w] \in {"spawned", "select", "sleep", "sendBlocked",
                        "finalBlocked"}]_vars

C12_Witness ==
    \E w \in Ids :
        /\ outcome[w].some
        /\ ~outcome[w].v.ok
        /\ outcome[w].v.kind = "cancelled"
        /\ bytes_written[w] > 0

\* C13: every send of an executor on a progress channel whose receiver is
\* gone ends the run with the cancellation error.
C13_DroppedReceiverAborts ==
    [][\A w \in Ids :
          (~chanRx[w] /\ sent'[w] # sent[w]) =>
              /\ outcome'[w].some
              /\ ~outcome'[w].v.ok
              /\ outcome'[w].v.kind = "receiver_dropped"]_vars

\* C14: a send on a full channel whose receiver is alive does not fail: the
\* sender stays suspended in it until a slot is free (or, for a worker, until
\* it is cancelled), and it ends with "receiver gone" only when the receiver
\* has been dropped.
C14_FullChannelWaits ==
    [][/\ \A w \in Ids :
             /\ (/\ outcome'[w] # outcome[w]
                 /\ ~outcome'[w].v.ok
                 /\ outcome'[w].v.kind = "receiver_dropped") => ~chanRx[w]
             /\ (/\ pc[w] \in {"sendBlocked", "finalBlocked"}
                 /\ chanRx[w]
                 /\ Len(chan[w]) >= ChanCap
                 /\ cancelCh[w] # "sent") => pc'[w] = pc[w]
             /\ (/\ sent'[w] # sent[w]
                 /\ chanRx[w]
                 /\ Len(chan[w]) >= ChanCap) =>
                    pc'[w] \in {"sendBlocked", "finalBlocked"}
       /\ (aggPc = "sending" /\ aggRx /\ Len(aggChan) >= AggCap) =>
              aggPc' = "sending"]_vars

C14_Witness ==
    \E w \in Ids :
        /\ pc[w] = "sendBlocked"
        /\ chanRx[w]
        /\ Len(chan[w]) = ChanCap
        /\ aggPc = "sending"
        /\ aggRx

C16_SnapshotSums ==
    ret.some =>
        LET R == {w \in DOMAIN arg : arg[w].some}
            n == Cardinality(R)
        IN
        /\ ret.v.total_bytes_processed =
               SumOver([w \in R |-> arg[w].v.bytes_processed], R)
        /\ ret.v.total_bytes_target =
               SumOver([w \in R |-> arg[w].v.total_bytes], R)
        /\ ret.v.total_iops = SumOver([w \in R |-> arg[w].v.iops], R)
        /\ ret.v.active_workers = n
        /\ DOMAIN ret.v.worker_progress = R
        /\ ret.v.avg_throughput_mbps =
               IF n = 0 THEN [num |-> 0, den |-> 1]
               ELSE [num |-> SumOver([w \in R |-> arg[w].v.throughput_mbps], R),
                     den |-> n]

C16_Witness ==
    /\ ret.some
    /\ ret.v.active_workers = 2
    /\ ret.v.avg_throughput_mbps = [num |-> 6, den |-> 2]
    /\ ret.v.total_iops = 7


\* C17: for a non-empty list of n samples, percentile p (50, 95, 99) of the
\* statistics is the element of index floor(n * p / 100) of the samples in
\* ascending order, that index is below n, and min <= avg <= max and
\* p50 <= p95 <= p99 <= max.
IsOrderStatistic(s, k, v) ==
    /\ \E i \in 1..Len(s) : s[i] = v
    /\ Cardinality({i \in 1..Len(s) : s[i] < v}) <= k
    /\ Cardinality({i \in 1..Len(s) : s[i] <= v}) >= k + 1

C17_LatencyStats ==
    (ret.some /\ arg # << >>) =>
        LET st == ret.v.latency
            n == Len(arg)
        IN
        /\ \A p \in {50, 95, 99} :
              /\ (n * p) \div 100 \in 0..(n - 1)
              /\ IsOrderStatistic(arg, (n * p) \div 100, st.percentiles[p])
        /\ IsOrderStatistic(arg, 0, st.min)
        /\ IsOrderStatistic(arg, n - 1, st.max)
        /\ st.min <= st.avg /\ st.avg <= st.max
        /\ st.percentiles[50] <= st.percentiles[95]
        /\ st.percentiles[95] <= st.percentiles[99]
        /\ st.percentiles[99] <= st.max

C17_Witness ==
    /\ ret.some
    /\ arg = << 5, 1, 2, 1 >>
    /\ ret.v.latency.percentiles[50] = 2
    /\ ret.v.latency.percentiles[99] = 5
    /\ ret.v.latency.avg = 2


\* C18: validate accepts a config exactly when the path exists and is a
\* directory, 0 < file_size <= 100 GiB, block_size is a power of two in
\* [512 B, 1 MiB], file_size >= block_size in the sequential modes,
\* 0 < duration <= 1 hour, 1 <= thread_count <= 64 and, in Mixed mode,
\* read_ratio lies in [0.0, 1.0]; every other config gets a ConfigError.
InUnitInterval(r) == ~r.nan /\ 0 <= r.tenths /\ r.tenths <= 10

Acceptable(c) ==
    /\ PathKind(c.disk_path) = "dir"
    /\ 0 < c.file_size /\ ~TooLarge(c.file_size)
    /\ c.block_size \in {2^k : k \in 9..20}
    /\ (IsSequential(c.mode) => c.file_size >= c.block_size)
    /\ 0 < c.duration /\ c.duration <= 3600
    /\ c.thread_count \in 1..64
    /\ (c.mode = "Mixed" => InUnitInterval(c.read_ratio))

C18_ValidateExact ==
    ret.some => /\ ret.v \in {"Ok", "ConfigError"}
                /\ (ret.v = "Ok") <=> Acceptable(arg)

\* C18, apart from a read_ratio that is not a number: the same equivalence
\* for every config whose read_ratio is a number
C18_ValidateExactForNumbers ==
    (ret.some /\ ~arg.read_ratio.nan) =>
        /\ ret.v \in {"Ok", "ConfigError"}
        /\ (ret.v = "Ok") <=> Acceptable(arg)


\* C20: when the timed loop of the random executor begins, both handles
\* being open, the scratch file holds all file_size bytes of the pre-filled
\* pattern, and every read at a drawn offset returns block_size bytes.
PrefilledFile(c) ==
    [i \in 1..c.file_size |-> ((i - 1) % c.block_size) % PatternPeriod]

C20_PrefilledAtLoop ==
    /\ (rnd.pc = "loop" /\ rnd.operations = 0) =>
          /\ rnd.read_file.open /\ rnd.write_file.open
          /\ ino[rnd.read_file.ino] = PrefilledFile(arg)
    /\ \A i \in 1..Len(rnd.read_lens) : rnd.read_lens[i] = arg.block_size


\* C19: a WorkerManager, SequentialBenchmark or RandomBenchmark constructed
\* with a config that fails validation is a ConfigError; then no worker is
\* spawned, no scratch file is created and no I/O is issued.
NothingStarted ==
    /\ started = "none"
    /\ workers = << >>
    /\ \A w \in Ids : /\ pc[w] = "unspawned"
                      /\ ~temp_file[w].open /\ ~read_file[w].open
    /\ aggPc = "off"
    /\ rnd = RndNone
    /\ pathIno = 0
    /\ \A i \in DOMAIN ino : ino[i] = << >>
    /\ ioErrors = 0 /\ shortWrites = 0

C19_InvalidConfigFailsFast ==
    (ret.some /\ ~validate(arg)) =>
        /\ ret.v.result = "ConfigError"
        /\ NothingStarted
        /\ ~ENABLED NextNew

C19_Witness ==
    /\ ret.some
    /\ ~validate(arg)
    /\ ret.v.type = "WorkerManager"
    /\ ret.v.result = "ConfigError"
    /\ NothingStarted


\* C21: in the random executor every operation of the timed loop is a write
\* when read_ratio is 0.0 and a read when read_ratio is 1.0, whatever the
\* generator draws (read_lens has one entry per read issued).
C21_RatioExtremes ==
    /\ rnd.read_ratio = Ratio(0) => Len(rnd.read_lens) = 0
    /\ rnd.read_ratio = Ratio(10) => Len(rnd.read_lens) = rnd.operations

C21_Witness ==
    /\ rnd.pc = "done"
    /\ rnd.outcome.v.ok
    /\ rnd.read_ratio = Ratio(0)
    /\ rnd.operations = MaxOps
    /\ rnd.read_lens = << >>


\* C22: in the duration-bounded modes (RandomReadWrite, Mixed) every worker
\* runs a random-I/O executor for the configured duration, and every worker
\* that is not cancelled yields a result to wait_for_completion.
C22_DurationWorkersYieldResults ==
    ~IsSequential(config.mode) =>
        /\ \A w \in WorkerIds :
              (outcome[w].some /\ cancelCh[w] = "open") => outcome[w].v.ok
        /\ (waitRet.some /\ \A w \in WorkerIds : cancelCh[w] = "open") =>
              /\ waitRet.v.ok
              /\ Len(waitRet.v.results) = config.thread_count


\* C23: when a worker's executor run ends (result, I/O error, dropped
\* receiver or cancellation) holding a scratch file, the file is gone from
\* its path if cleanup was left on, and is still at its path if keep_on_drop
\* had been called on it.
EndsHoldingFile(w) ==
    /\ ~outcome[w].some
    /\ outcome'[w].some
    /\ temp_file[w].open

ScratchFileAtEnd(w) ==
    EndsHoldingFile(w) =>
        IF temp_file[w].cleanup_on_drop THEN pathIno' # temp_file[w].ino
        ELSE pathIno' = temp_file[w].ino

C23_ScratchFileAtEnd == [][\A w \in Ids : ScratchFileAtEnd(w)]_vars

\* C23 with one worker, where no other executor shares the scratch path
C23_ScratchFileAtEndSingle ==
    [][config.thread_count = 1 => ScratchFileAtEnd(0)]_vars


\* C24: when the unbuffered open for write fails, the open succeeds exactly
\* when the buffered open succeeds; on that fallback handle every write that
\* returns Ok was flushed before it returned, and on an unbuffered handle no
\* write calls the flush.
Fallback == dio.pc = "open" /\ ~dio.direct_ok

C24_FallbackFlushes ==
    /\ (dio.mode = "write" /\ ~dio.direct_ok) =>
          /\ dio.pc = "open" <=> dio.buffered_ok
          /\ dio.pc = "open" => dio.use_fsync
    /\ (dio.mode = "write" /\ Fallback) =>
          \A i \in 1..Len(dio.calls) : dio.calls[i].ok => dio.calls[i].flushed
    /\ (dio.mode = "write" /\ dio.pc = "open" /\ dio.direct_ok) =>
          \A i \in 1..Len(dio.calls) : ~dio.calls[i].sync_called

C24_Witness ==
    /\ dio.mode = "write"
    /\ Fallback
    /\ Len(dio.calls) = 2
    /\ dio.calls[1].ok /\ dio.calls[1].flushed
    /\ ~dio.calls[2].ok /\ dio.calls[2].sync_called

\* C25: a file opened in fallback (buffered) mode has been signalled to the
\* caller exactly once, whatever the number of operations made on it.
C25_FallbackNoticedOnce == Fallback => dio.notices = 1


\* C26: a permission error or an out-of-space error raised by a storage
\* operation reaches the caller of the executor or of the orchestrator as
\* PermissionDenied or InsufficientSpace respectively.
C26_ErrorKindsKept ==
    ret.some =>
        /\ arg.kind = "PermissionDenied" => ret.v.kind = "PermissionDenied"
        /\ arg.kind = "StorageFull" => ret.v.kind = "InsufficientSpace"


\* C27: retry_async calls the operation until the first success, the first
\* non-retryable error (PermissionDenied, ConfigError, DirectIoUnsupported,
\* CancellationError) or max_attempts calls, whichever comes first, returns
\* the outcome of the last call made and never makes more than max_attempts
\* calls.
NamedNonRetryable(e) ==
    e.type \in {"PermissionDenied", "ConfigError", "DirectIoUnsupported",
                "CancellationError"}

\* the same kinds and the I/O errors that are not transient
NonRetryable(e) ==
    \/ NamedNonRetryable(e)
    \/ e.type = "IoError" /\ e.io_kind \notin
         {"Interrupted", "WouldBlock", "TimedOut", "ConnectionAborted",
          "ConnectionReset"}

\* the calls stop at the first success, the first error Stops accepts or
\* max_attempts calls, and the result is the last call's
RetriesUntil(Stops(_)) ==
    LET n == Len(retry.calls)
        Last(i) == \/ retry.calls[i].ok
                   \/ Stops(retry.calls[i].err)
                   \/ i = retry.config.max_attempts
    IN
    /\ n <= retry.config.max_attempts
    /\ \A i \in 1..(n - 1) : ~Last(i)
    /\ retry.pc = "returned" =>
          IF n = 0 THEN retry.config.max_attempts = 0
          ELSE Last(n) /\ retry.result = Some(retry.calls[n])

C27_RetryUntil == RetriesUntil(NamedNonRetryable)

\* C27 amended: the non-retryable errors are those four kinds and every
\* IoError whose kind is not Interrupted, WouldBlock, TimedOut,
\* ConnectionAborted or ConnectionReset.
C27_RetryUntilAmended == RetriesUntil(NonRetryable)

C27_Witness ==
    /\ retry.pc = "returned"
    /\ retry.config.max_attempts = 3
    /\ Len(retry.calls) = 2
    /\ retry.calls[1] = ErrResult(IoError("Interrupted"))
    /\ retry.calls[2] = ErrResult(IoError("NotFound"))
    /\ retry.result = Some(ErrResult(IoError("NotFound")))


\* ------------------------------------------------------ results storage
\* a result is told from the others by its bytes_processed, as in
\* test_results_rotation; of its numbers only the read_ratio of a Mixed
\* config is kept, the one that validate lets be NaN
StoredResult(n, ratio) == [bytes_processed |-> n, read_ratio |-> ratio]

\* serde_json::to_string_pretty writes a float that is not finite as null
to_json(result) ==
    [bytes_processed |-> result.bytes_processed,
     read_ratio |-> IF result.read_ratio.nan
                    THEN [null |-> TRUE, number |-> 0]
                    ELSE [null |-> FALSE,
                          number |-> result.read_ratio.tenths]]

\* serde_json::from_str of one result: null is no f32
from_json(entry) ==
    IF entry.read_ratio.null THEN [ok |-> FALSE]
    ELSE [ok |-> TRUE,
          result |-> StoredResult(entry.bytes_processed,
                                  Ratio(entry.read_ratio.number))]

NoResultsFile == [exists |-> FALSE, entries |-> << >>]

\* load_results: no file is an empty list, a file that does not parse is an
\* error
load_results(file) ==
    IF ~file.exists THEN [ok |-> TRUE, results |-> << >>]
    ELSE IF \E i \in 1..Len(file.entries) : ~from_json(file.entries[i]).ok
    THEN [ok |-> FALSE, results |-> << >>]
    ELSE [ok |-> TRUE,
          results |-> [i \in 1..Len(file.entries) |->
                          from_json(file.entries[i]).result]]

\* the rotation of append_result
rotate(rs) ==
    IF Len(rs) > MAX_RESULTS_HISTORY
    THEN SubSeq(rs, Len(rs) - MAX_RESULTS_HISTORY + 1, Len(rs))
    ELSE rs

\* save_results: the whole file is written anew
save_results(rs) ==
    [exists |-> TRUE,
     entries |-> [i \in 1..Len(rs) |-> to_json(rs[i])]]

\* arg: the results given to append_result so far; ret: the file and what the
\* last call returned
InitResults ==
    /\ ManagerInit(DefaultConfig)
    /\ PoolIdle
    /\ CombineIdle
    /\ arg = << >>
    /\ ret = [file |-> NoResultsFile, last |-> "none"]
    /\ rnd = RndNone
    /\ AuxIdle

\* append_result(result): load, push, rotate, save
append_result(result) ==
    /\ Len(arg) < MaxAppends
    /\ arg' = Append(arg, result)
    /\ LET loaded == load_results(ret.file) IN
       ret' = IF loaded.ok
              THEN [file |-> save_results(rotate(Append(loaded.results,
                                                       result))),
                    last |-> "Ok"]
              ELSE [ret EXCEPT !.last = "Err"]
    /\ UNCHANGED << rnd, auxVars, poolVars, combVars, mainVars >>

\* the next result of the run; at most MaxUnreadable of them hold a NaN
NextResults ==
    \E ratio \in {Ratio(5)} \cup
                 (IF Cardinality({i \in 1..Len(arg) : arg[i].read_ratio.nan})
                        < MaxUnreadable
                  THEN {NaN} ELSE {}) :
        append_result(StoredResult(Len(arg) + 1, ratio))

SpecResults == InitResults /\ [][NextResults]_vars

\* ------------------------------------------- a caller that never reads
\* the caller of test_worker_status_tracking: it never calls recv on
\* progress_rx, which it keeps until it goes out of scope
NextUnread ==
    \/ start_benchmark
    \/ cancel_all
    \/ WaitBegin
    \/ WaitJoin
    \/ WaitReturn
    \/ \E w \in Ids : Task(w)
    \/ AggTick
    \/ AggResume
    \/ AggDrop

SpecUnread == Init /\ [][NextUnread]_vars

\* a step of the run itself: of the manager's calls, of a worker task or of
\* the aggregation task, but no cancellation
RunStep ==
    \/ start_benchmark
    \/ WaitBegin
    \/ WaitJoin
    \/ WaitReturn
    \/ \E w \in Ids : Task(w)
    \/ AggTick
    \/ AggResume

NoCancelRequested ==
    /\ \A w \in Ids : cancelCh[w] = "open"
    /\ \A i \in 1..Len(workers) : workers[i].status # "Cancelled"

RunCompleted ==
    /\ waitPc = "returned"
    /\ \A w \in Ids : pc[w] \in {"unspawned", "done"}

\* C28: with the aggregated receiver alive and never read, a run that nobody
\* cancels cannot come to a halt before every worker task has finished and
\* wait_for_completion has returned: as long as it is not complete, some step
\* of the run is possible.
C28_CompletesUnread ==
    (aggRx /\ NoCancelRequested /\ ~RunCompleted) => ENABLED RunStep


\* C29: the step in which the aggregation task stops while the caller still
\* holds the receiver emits one more snapshot, the last of the stream, and that
\* snapshot holds for each of the N workers an update with the byte count of
\* the worker's final update (all of its share): its total bytes processed
\* equals its total bytes target and active_workers is N.
C29_LastSnapshotFinal ==
    [][(aggPc # "stopped" /\ aggPc' = "stopped" /\ aggRx) =>
          /\ Len(aggChan') = Len(aggChan) + 1
          /\ LET last == aggChan'[Len(aggChan')] IN
             /\ last.active_workers = config.thread_count
             /\ last.total_bytes_processed = last.total_bytes_target
             /\ DOMAIN last.worker_progress = WorkerIds
             /\ \A w \in WorkerIds :
                   /\ last.worker_progress[w].bytes_processed =
                          worker_config[w].file_size
                   /\ last.worker_progress[w].total_bytes =
                          worker_config[w].file_size]_vars

C29_Witness ==
    /\ aggPc = "stopped"
    /\ aggRx
    /\ config.thread_count = 2
    /\ \A w \in WorkerIds : outcome[w].some /\ outcome[w].v.ok
    /\ aggChan # << >>
    /\ aggChan[Len(aggChan)].active_workers = 2
    /\ aggChan[Len(aggChan)].total_bytes_processed =
           worker_config[0].file_size + worker_config[1].file_size


\* the places of update u in the send order s of a worker at which the
\* updates still in the worker's channel c are the ones sent right after it
PlacesInSendOrder(s, c, u) ==
    {k \in 1..Len(s) :
        /\ s[k] = u
        /\ k + Len(c) <= Len(s)
        /\ c = SubSeq(s, k + 1, k + Len(c))}

BytesOf(wp) ==
    LET present == {w \in WorkerIds : wp[w].some} IN
    SumOver([w \in present |-> wp[w].v.bytes_processed], present)

IsWriteWorker(w) ==
    w \in WorkerIds /\ worker_config[w].mode = "SequentialWrite"

\* C31: a sequential write worker reaches the end of its run only through
\* the sync, which it reaches only with bytes_written = file_size; it returns
\* a result only from there; the result and the final update (the last one
\* sent) report exactly file_size bytes, also after short writes; and in a run
\* of one worker the file holds exactly file_size bytes at that point.
C31_WritesExactlyFileSize ==
    [][\A w \in Ids : IsWriteWorker(w) =>
          /\ bytes_written'[w] <= worker_config[w].file_size
          /\ (pc'[w] = "sync" /\ pc[w] # "sync") =>
                bytes_written'[w] = worker_config[w].file_size
          /\ (pc'[w] = "final" /\ pc[w] # "final") =>
                /\ pc[w] = "sync"
                /\ bytes_written[w] = worker_config[w].file_size
                /\ config.thread_count = 1 =>
                      Len(ino[temp_file[w].ino]) = worker_config[w].file_size
          /\ (outcome'[w] # outcome[w] /\ outcome'[w].v.ok) =>
                /\ pc[w] \in {"final", "finalBlocked"}
                /\ outcome'[w].v.bytes_processed = worker_config[w].file_size
                /\ sent'[w] # << >>
                /\ sent'[w][Len(sent'[w])].bytes_processed =
                       worker_config[w].file_size
                /\ sent'[w][Len(sent'[w])].total_bytes =
                       worker_config[w].file_size]_vars

C31_Witness ==
    /\ IsWriteWorker(0)
    /\ shortWrites > 0
    /\ outcome[0].some
    /\ outcome[0].v.ok
    /\ outcome[0].v.bytes_processed = 1025

IsReadWorker(w) ==
    w \in WorkerIds /\ worker_config[w].mode = "SequentialRead"

\* the next read_direct of worker w returns 0 bytes
AtEndOfFile(w) ==
    FsRead(ino[read_file[w].ino], read_file[w].off,
           Min(worker_config[w].file_size - bytes_read[w],
               worker_config[w].block_size)) = << >>

\* C32: when the read loop finds the end of the file before file_size bytes
\* (and the read itself does not fail), it goes on to the final stage without
\* an error and without reading again; the result of a read worker reports
\* the bytes actually read (the file offset it has reached); and a read worker
\* fails in its loop only by a failed read or a failed send, and after it only
\* by cancellation.
C32_EndOfFileIsSuccess ==
    [][\A w \in Ids : IsReadWorker(w) =>
          /\ (pc[w] = "read" /\ pc'[w] # "read" /\ AtEndOfFile(w)
                /\ ioErrors' = ioErrors) =>
                /\ pc'[w] = "final"
                /\ outcome'[w] = outcome[w]
                /\ bytes_read'[w] = bytes_read[w]
          /\ (pc[w] \in {"final", "finalBlocked"}) =>
                /\ bytes_read'[w] = bytes_read[w]
                /\ read_file'[w].off \in {read_file[w].off, 0}
                /\ pc'[w] \in {"final", "finalBlocked", "done"}
                /\ (outcome'[w].some /\ ~outcome'[w].v.ok) =>
                      outcome'[w].v.kind = "cancelled"
          /\ (pc[w] \in {"read", "sendBlocked"} /\ outcome'[w].some
                /\ ~outcome'[w].v.ok) =>
                \/ ioErrors' > ioErrors
                \/ outcome'[w].v.kind \in {"receiver_dropped", "cancelled"}
          /\ (outcome'[w] # outcome[w] /\ outcome'[w].v.ok) =>
                /\ outcome'[w].v.bytes_processed = bytes_read[w]
                /\ outcome'[w].v.bytes_processed = read_file[w].off]_vars

C32_Witness ==
    \E w \in Ids :
        /\ IsReadWorker(w)
        /\ outcome[w].some
        /\ outcome[w].v.ok
        /\ outcome[w].v.bytes_processed < worker_config[w].file_size

\* the calls that write, read, seek or sync
TransferCalls ==
    {"write_direct", "fill write_direct", "read_direct", "read seek_direct",
     "write seek_direct", "sync_all", "fill sync_all"}

\* C33 (the error returned): when a write, read, seek or sync of an executor
\* fails, the error returned is a benchmark-execution error whose message
\* carries the byte offset of the failure.
C33_FailureCarriesOffset ==
    (ret.some /\ arg.site.call \in TransferCalls) =>
        /\ ret.v.kind = "BenchmarkError"
        /\ \E i \in 1..Len(ret.v.message) :
              ret.v.message[i] \in {"{bytes_written}", "{bytes_read}",
                                    "{offset}"}

\* C33 (the run stops): the step in which a storage call of a worker fails
\* ends the worker's task with an error, writes nothing and sends nothing,
\* and a task that has ended changes neither the file system nor its stream.
C33_FailureStopsRun ==
    [][\A w \in Ids :
          /\ (ioErrors' > ioErrors /\ pc'[w] # pc[w]) =>
                /\ pc'[w] = "done"
                /\ outcome'[w].some
                /\ ~outcome'[w].v.ok
                /\ sent' = sent
                /\ ino' = ino
          /\ pc[w] = "done" =>
                /\ pc'[w] = "done"
                /\ sent'[w] = sent[w]
                /\ outcome'[w] = outcome[w]]_vars

\* C34: every buffer in the pool has length buffer_size and holds only
\* zeros, and so has the buffer a get_buffer call hands to its caller,
\* whatever the holders wrote into the buffers they released.
C34_BuffersZeroed ==
    [][/\ \A i \in 1..Len(pool') : pool'[i] = Zeros(poolCfg.buffer_size)
       /\ \A c \in Clients :
             get_buffer(c) =>
                BagToSet(held'[c] (-) held[c]) =
                    {Zeros(poolCfg.buffer_size)}]_vars

C34_Witness ==
    \E c \in Clients :
        /\ released = -1
        /\ pool # << >>
        /\ BagIn(Zeros(poolCfg.buffer_size), held[c])
        /\ \E b \in BagToSet(held[c]) : b[1] = 1

\* the results of the calls made so far that could be written and read back
Readable(rs) == \A i \in 1..Len(rs) : ~rs[i].read_ratio.nan

LastOf(rs, n) == IF Len(rs) > n THEN SubSeq(rs, Len(rs) - n + 1, Len(rs)) ELSE rs

\* C35: after any sequence of append_result calls the results file holds at
\* most MAX_RESULTS_HISTORY results, and they are the results given to the
\* most recent calls, in the order of the calls.
C35_KeepsMostRecent ==
    arg # << >> =>
        LET stored == load_results(ret.file) IN
        /\ stored.ok
        /\ Len(stored.results) <= MAX_RESULTS_HISTORY
        /\ stored.results = LastOf(arg, MAX_RESULTS_HISTORY)

\* C35 (results whose numbers are all finite): the same, for the sequences of
\* calls in which no result holds a NaN.
C35_KeepsMostRecentFinite ==
    (arg # << >> /\ Readable(arg)) =>
        LET stored == load_results(ret.file) IN
        /\ stored.ok
        /\ Len(stored.results) <= MAX_RESULTS_HISTORY
        /\ stored.results = LastOf(arg, MAX_RESULTS_HISTORY)
        /\ ret.last = "Ok"

C35_RotationReached ==
    /\ Len(arg) > MAX_RESULTS_HISTORY
    /\ Readable(arg)
    /\ Len(ret.file.entries) = MAX_RESULTS_HISTORY

\* C36: for a sequential config the manager was built with, start_benchmark
\* returns Ok and leaves thread_count workers, all of them Running.
C36_AcceptedConfigStarts ==
    [][(IsSequential(config.mode) /\ started = "none" /\ started' # "none") =>
          /\ started' = "Ok"
          /\ Len(workers') = config.thread_count
          /\ \A i \in 1..Len(workers') : workers'[i].status = "Running"]_vars

\* C37: in a run of the random executor on a random or mixed config that
\* passed validation, the range of offsets 0 .. file_size - block_size is
\* not empty (the run does not panic when it draws an offset, and the
\* subtraction does not go below 0), and every operation ends inside the
\* file.
C37_OffsetRangeSound ==
    (arg.mode \in {"RandomReadWrite", "Mixed"} /\ validate(arg)) =>
        /\ rnd.pc # "panicked"
        /\ rnd.pc \in {"loop", "sendBlocked"} =>
              arg.file_size - arg.block_size > 0
        /\ rnd.read_file.off <= arg.file_size
        /\ rnd.write_file.off <= arg.file_size

\* C38: while wait_for_completion is in progress and a worker is still
\* running, a call of cancel_all can go through (it is not kept waiting for
\* the workers mutex).
C38_CancelDuringWait ==
    (waitPc = "joining" /\ \E w \in WorkerIds : pc[w] \notin {"unspawned", "done"})
        => ENABLED cancel_all

\* the runs of one worker, in which the scheduler polls the task whenever it
\* can make a step
InitOne == Init /\ config.thread_count = 1

SpecFair == InitOne /\ [][Next]_vars /\ \A w \in Ids : WF_vars(Task(w))

\* how far the task of worker w is from its end: the stages still to come,
\* then the bytes still to transfer in the loop it is in, then the send it
\* is suspended in
StageRank(p) ==
    CASE p = "spawned" -> 10
      [] p = "select" -> 9
      [] p = "sleep" -> 8
      [] p = "fill" -> 7
      [] p = "fillsync" -> 6
      [] p = "open" -> 5
      [] p \in {"write", "read", "sendBlocked"} -> 4
      [] p = "sync" -> 3
      [] p = "final" -> 2
      [] p = "finalBlocked" -> 1
      [] OTHER -> 0

StepsLeft(p, mode, file_size, bw, br) ==
    StageRank(p) * 10000
    + 2 * (IF p \in {"fill", "write"} THEN file_size - bw
           ELSE IF p = "read" THEN file_size - br
           ELSE IF p = "sendBlocked"
           THEN file_size - (IF mode = "SequentialWrite" THEN bw ELSE br)
           ELSE 0)
    + (IF p = "sendBlocked" THEN 1 ELSE 0)

TaskMoved(w) ==
    \/ pc'[w] # pc[w]
    \/ bytes_written'[w] # bytes_written[w]
    \/ bytes_read'[w] # bytes_read[w]

\* C39 (under the fairness of the scheduler, one worker): a worker that
\* cancel_all has signalled ends.
C39_SignalledWorkerEndsFair ==
    \A w \in Ids : (cancelCh[w] = "sent") ~> (pc[w] = "done")

\* C39: a worker that cancel_all has signalled and that has not ended can
\* always make a step, also when it is suspended in a send on a full channel
\* that nobody reads; and every step of a task brings it nearer to its end
\* (the steps left, a natural number, go down).  Hence the task ends, its
\* join handle resolves.
C39_SignalledWorkerEnds ==
    /\ [](\A w \in Ids :
            (cancelCh[w] = "sent" /\ pc[w] # "done") => ENABLED Task(w))
    /\ [][\A w \in Ids :
            TaskMoved(w) =>
               /\ StepsLeft(pc'[w], worker_config'[w].mode,
                            worker_config'[w].file_size, bytes_written'[w],
                            bytes_read'[w]) >= 0
               /\ pc[w] # "unspawned" =>
                     StepsLeft(pc'[w], worker_config'[w].mode,
                               worker_config'[w].file_size, bytes_written'[w],
                               bytes_read'[w])
                     < StepsLeft(pc[w], worker_config[w].mode,
                                 worker_config[w].file_size, bytes_written[w],
                                 bytes_read[w])]_vars

C39_Witness ==
    \E w \in Ids :
        /\ cancelCh[w] = "sent"
        /\ pc[w] = "done"
        /\ outcome[w].v = Err(w, "cancelled")
        /\ Len(chan[w]) = ChanCap
        /\ aggPc = "sending"
        /\ aggRx

\* C40: when every worker task has ended and the aggregation task has taken
\* every update they left in their channels, the task either has stopped or
\* holds what makes it stop at its next test (an update of 100% for every
\* worker): it is never left running with nothing more to come.
C40_AggregatorStopsAfterWorkers ==
    (/\ started = "Ok"
     /\ aggRx
     /\ \A w \in WorkerIds : pc[w] = "done" /\ chan[w] = << >>) =>
        \/ aggPc = "stopped"
        \/ all_done([w \in WorkerIds |-> worker_progress[w]])

\* C40, the rest of the run: from a state in which every worker task has
\* ended, the channels are empty and the aggregation task is still running
\* without a 100% update for every worker, no step taken while the caller
\* keeps the receiver changes the stored updates or stops the task.
C40_AggregatorKeepsPolling ==
    [][(/\ started = "Ok"
        /\ aggRx /\ aggRx'
        /\ \A w \in WorkerIds : pc[w] = "done" /\ chan[w] = << >>
        /\ aggPc # "stopped"
        /\ ~all_done([w \in WorkerIds |-> worker_progress[w]])) =>
           /\ aggPc' # "stopped"
           /\ worker_progress' = worker_progress
           /\ \A w \in WorkerIds : pc'[w] = "done" /\ chan'[w] = << >>]_vars

====
